---------------------------- MODULE Spec2Model ----------------------------
(***************************************************************************)
(* dbsg: introspection of stored routines and reconstruction of the flat   *)
(* metadata rows into a Database/Schema/Package/Routine/Argument tree.     *)
(*                                                                         *)
(* Python strings are modelled as sequences of one-character strings, so   *)
(* that str.split, str.upper, str.lower, str.join and repr are computed    *)
(* as the code computes them.                                              *)
(***************************************************************************)
EXTENDS Integers, Sequences, FiniteSets, TLC

(***************************************************************************)
(* Bounds of the model                                                     *)
(***************************************************************************)
\* Segments of a dotted object specifier handed to Schema.normalize.
MaxSegs == 4
\* Objects a Schema's include_routines, exclude_routines and exclude_packages
\* lists name in total.
MaxObjects == 3
\* Schemas of the first configured database (the second one has one schema).
NumSchemes == 2
\* Databases of the configuration.
NumDatabases == 2
\* Rows consumed by one run of Abstract.intermediate_representation.
MaxRows == 3
\* Replacement values an introspection appendix entry may carry.
NumValues == 2
\* The max of a session pool, for the workers that share the pool.
PoolMax == 2

(***************************************************************************)
(* Strings                                                                 *)
(***************************************************************************)
Lowers == <<"a", "b", "c", "d", "e", "f", "g", "h", "i", "j", "k", "l", "m",
            "n", "o", "p", "q", "r", "s", "t", "u", "v", "w", "x", "y", "z">>
Uppers == <<"A", "B", "C", "D", "E", "F", "G", "H", "I", "J", "K", "L", "M",
            "N", "O", "P", "Q", "R", "S", "T", "U", "V", "W", "X", "Y", "Z">>

\* None among strings: no str equals it, no str method changes it.
None == <<"None">>

UpperChar(c) ==
    IF \E i \in 1..Len(Lowers) : Lowers[i] = c
    THEN Uppers[CHOOSE i \in 1..Len(Lowers) : Lowers[i] = c]
    ELSE c

LowerChar(c) ==
    IF \E i \in 1..Len(Uppers) : Uppers[i] = c
    THEN Lowers[CHOOSE i \in 1..Len(Uppers) : Uppers[i] = c]
    ELSE c

\* str.upper()
Upper(s) == [i \in 1..Len(s) |-> UpperChar(s[i])]

\* str.lower()
Lower(s) == [i \in 1..Len(s) |-> LowerChar(s[i])]

RECURSIVE SplitFrom(_, _, _)
SplitFrom(s, i, cur) ==
    IF i > Len(s) THEN <<cur>>
    ELSE IF s[i] = "." THEN <<cur>> \o SplitFrom(s, i + 1, <<>>)
    ELSE SplitFrom(s, i + 1, Append(cur, s[i]))

\* str.split('.'): never empty, '' splits into [''].
Split(s) == SplitFrom(s, 1, <<>>)

RECURSIVE Join(_, _)
\* sep.join(parts)
Join(sep, parts) ==
    IF parts = <<>> THEN <<>>
    ELSE IF Len(parts) = 1 THEN parts[1]
    ELSE parts[1] \o sep \o Join(sep, Tail(parts))

\* repr() of a str without quotes in it.
Repr(s) == <<"'">> \o s \o <<"'">>

RECURSIVE ReplaceDotDot(_)
\* str.replace('..', '.'): non-overlapping occurrences, left to right.
ReplaceDotDot(s) ==
    IF Len(s) < 2 THEN s
    ELSE IF s[1] = "." /\ s[2] = "."
         THEN <<".">> \o ReplaceDotDot(SubSeq(s, 3, Len(s)))
         ELSE <<s[1]>> \o ReplaceDotDot(Tail(s))

\* list.insert(i, x) for 0 <= i <= len(list), i given as in Python (0-based).
Insert(list, i, x) == SubSeq(list, 1, i) \o <<x>> \o SubSeq(list, i + 1, Len(list))

SeqToSet(s) == {s[i] : i \in 1..Len(s)}

\* The orders in which the elements of a set may be iterated.
Enumerations(S) ==
    {e \in [1..Cardinality(S) -> S] : \A x \in S : \E i \in DOMAIN e : e[i] = x}

RECURSIVE SeqsUpTo(_, _)
\* The sequences over S of length at most n.
SeqsUpTo(S, n) ==
    IF n = 0 THEN {<<>>}
    ELSE LET shorter == SeqsUpTo(S, n - 1)
         IN  shorter \cup {Append(q, x) : q \in shorter, x \in S}

(***************************************************************************)
(* dbsg.lib.configuration: FQDN and Schema                                 *)
(***************************************************************************)
\* FQDN.__init__ of three members: all uppercased.
FQDN(schema, package, routine) ==
    [schema |-> Upper(schema), package |-> Upper(package), routine |-> Upper(routine)]

\* FQDN.__str__
FQDNStr(fqdn) ==
    ReplaceDotDot(fqdn.schema \o <<".">> \o fqdn.package \o <<".">> \o fqdn.routine)

\* FQDN.__repr__
FQDNRepr(fqdn) == Repr(FQDNStr(fqdn))

NormalizeOneAlwaysPrepends(name, o) ==
    LET obj1 == Insert(Split(o), 0, name)
    IN  IF Len(obj1) = 2 THEN Insert(obj1, 1, <<>>) ELSE obj1

NormalizeOneSwapped(name, o) ==
    LET obj  == Split(o)
        obj1 == IF obj[1] # name \/ Len(obj) = 1 THEN Insert(obj, 0, name) ELSE obj
    IN  IF Len(obj1) = 2 THEN Insert(obj1, 2, <<>>) ELSE obj1

\* The body of the loop of Schema.normalize, for one object.
NormalizeOne(name, o) ==
    LET obj  == Split(o)
        obj1 == IF obj[1] # name \/ Len(obj) = 1 THEN Insert(obj, 0, name) ELSE obj
    IN  IF Len(obj1) = 2 THEN Insert(obj1, 1, <<>>) ELSE obj1

\* Schema.normalize(name, objects)
normalize(name, objects) == [i \in 1..Len(objects) |-> NormalizeOne(name, objects[i])]

\* FQDN(*routine) unpacks exactly three members, a ValueError otherwise.
Unpackable(normalized) == \A i \in 1..Len(normalized) : Len(normalized[i]) = 3

FQDNs(normalized) ==
    [i \in 1..Len(normalized) |->
        FQDN(normalized[i][1], normalized[i][2], normalized[i][3])]

WithPackage(fqdns) == LET test(f) == f.package # <<>> IN SelectSeq(fqdns, test)

WithoutPackage(fqdns) == LET test(f) == f.package = <<>> IN SelectSeq(fqdns, test)

\* Schema.__post_init__, the include_routines loop: the local lists it fills.
IncludedRoutines(include_routines) ==
    LET packaged == WithPackage(include_routines)
    IN  [i \in 1..Len(packaged) |-> FQDNRepr(packaged[i])]

IncludedPackagesOfAll(include_routines) ==
    {Repr(f.package) : f \in SeqToSet(include_routines)}

IncludedPackages(include_routines) ==
    {Repr(f.package) : f \in SeqToSet(WithPackage(include_routines))}

IncludedRoutinesNoPkgNone(include_routines) == <<>>

IncludedRoutinesNoPkg(include_routines) ==
    LET loose == WithoutPackage(include_routines)
    IN  [i \in 1..Len(loose) |-> Repr(loose[i].routine)]

ExcludedPackagesAlways(include_routines, exclude_packages) ==
    {Repr(p) : p \in SeqToSet(exclude_packages)}

\* Schema.__post_init__, the exclude_packages loop.
ExcludedPackages(include_routines, exclude_packages) ==
    IF include_routines = <<>>
    THEN {Repr(p) : p \in SeqToSet(exclude_packages)}
    ELSE {}

\* Schema.__post_init__, the exclude_routines loop.
ExcludedRoutines(include_routines, exclude_routines) ==
    IF include_routines # <<>> THEN <<>>
    ELSE LET packaged == WithPackage(exclude_routines)
         IN  [i \in 1..Len(packaged) |-> FQDNRepr(packaged[i])]

ExcludedRoutinesNoPkg(include_routines, exclude_routines) ==
    IF include_routines # <<>> THEN <<>>
    ELSE LET loose == WithoutPackage(exclude_routines)
         IN  [i \in 1..Len(loose) |-> FQDNRepr(loose[i])]

NoPkgSuffix == <<"_", "n", "o", "_", "p", "k", "g">>

\* Schema.__post_init__: the Schema objects it may leave, one per iteration
\* order of the two sets it joins; an empty set when FQDN(*routine) raises.
\* raw holds the constructor's arguments.
SchemaPostInit(raw) ==
    LET name == Upper(raw.name)
        no_pkg == IF raw.no_package_name \in {None, <<>>}
                  THEN name \o NoPkgSuffix
                  ELSE raw.no_package_name
        included == normalize(name, raw.include_routines)
        excluded == normalize(name, raw.exclude_routines)
        include_routines == FQDNs(included)
        exclude_packages == [i \in 1..Len(raw.exclude_packages) |->
                                Upper(raw.exclude_packages[i])]
        exclude_routines == FQDNs(excluded)
    IN  IF ~(Unpackable(included) /\ Unpackable(excluded)) THEN {}
        ELSE
        {[name |-> name,
          no_package_name |-> Upper(no_pkg),
          introspection_appendix |-> raw.introspection_appendix,
          exclude_packages |-> exclude_packages,
          exclude_routines |-> exclude_routines,
          include_routines |-> include_routines,
          included_packages |-> Join(<<",", " ">>, ip),
          excluded_packages |-> Join(<<",", " ">>, ep),
          included_routines |-> Join(<<",", " ">>, IncludedRoutines(include_routines)),
          included_routines_no_pkg |->
              Join(<<",", " ">>, IncludedRoutinesNoPkg(include_routines)),
          excluded_routines |->
              Join(<<",", " ">>, ExcludedRoutines(include_routines, exclude_routines)),
          excluded_routines_no_pkg |->
              Join(<<",", " ">>, ExcludedRoutinesNoPkg(include_routines, exclude_routines))]
         : ip \in Enumerations(IncludedPackages(include_routines)),
           ep \in Enumerations(ExcludedPackages(include_routines, exclude_packages))}


(***************************************************************************)
(* dbsg.lib.introspection: rows, appendix overrides, the query builder     *)
(***************************************************************************)
ComplexTypesWithoutCursor ==
    {<<"v", "a", "r", "r", "a", "y">>,
     <<"t", "a", "b", "l", "e">>,
     <<"r", "e", "c", "o", "r", "d">>,
     <<"p", "l", "/", "s", "q", "l", " ", "t", "a", "b", "l", "e">>,
     <<"p", "l", "/", "s", "q", "l", " ", "r", "e", "c", "o", "r", "d">>}

COMPLEX_TYPES ==
    {<<"r", "e", "f", " ", "c", "u", "r", "s", "o", "r">>,
     <<"o", "b", "j", "e", "c", "t">>,
     <<"v", "a", "r", "r", "a", "y">>,
     <<"t", "a", "b", "l", "e">>,
     <<"r", "e", "c", "o", "r", "d">>,
     <<"p", "l", "/", "s", "q", "l", " ", "t", "a", "b", "l", "e">>,
     <<"p", "l", "/", "s", "q", "l", " ", "r", "e", "c", "o", "r", "d">>}

\* The attributes of IntrospectionRow holding a str (or None) once fetched.
StrAttributes ==
    {"schema", "package", "routine", "routine_type", "argument", "data_type",
     "custom_type_schema", "custom_type_package", "custom_type", "in_out"}

IntrospectionRowTruthyDefaulted(raw) ==
    [a \in DOMAIN raw |->
        IF a = "is_package" THEN raw[a] # 0
        ELSE IF a = "defaulted" THEN raw[a] # <<>>
        ELSE IF a = "overload" THEN (IF raw[a] = <<>> THEN 0 ELSE raw[a][1])
        ELSE IF a \in StrAttributes THEN Lower(raw[a])
        ELSE raw[a]]

\* IntrospectionRow.__post_init__ on the positional values of a fetched row.
\* overload is <<>> for NULL and <<n>> for a number.
IntrospectionRow(raw) ==
    [a \in DOMAIN raw |->
        IF a = "is_package" THEN raw[a] # 0
        ELSE IF a = "defaulted" THEN raw[a] = <<"Y">>
        ELSE IF a = "overload" THEN (IF raw[a] = <<>> THEN 0 ELSE raw[a][1])
        ELSE IF a \in StrAttributes THEN Lower(raw[a])
        ELSE raw[a]]

\* IntrospectionRow.override: setattr of every item of data.new.
override(row, data) ==
    [a \in DOMAIN row \cup DOMAIN data.new |->
        IF a \in DOMAIN data.new THEN data.new[a] ELSE row[a]]

OverrideRowByObject(appendix, row) ==
    LET keys == {k \in DOMAIN appendix : Len(k) = 2 /\ k[1] = row.object_id}
        r1 == IF keys # {} THEN override(row, appendix[CHOOSE k \in keys : TRUE]) ELSE row
    IN  IF <<r1.object_id, r1.subprogram_id, r1.position>> \in DOMAIN appendix
        THEN override(r1, appendix[<<r1.object_id, r1.subprogram_id, r1.position>>])
        ELSE r1

OverrideRowArgumentFirst(appendix, row) ==
    LET r1 == IF <<row.object_id, row.subprogram_id, row.position>> \in DOMAIN appendix
              THEN override(row, appendix[<<row.object_id, row.subprogram_id, row.position>>])
              ELSE row
    IN  IF <<r1.object_id, r1.subprogram_id>> \in DOMAIN appendix
        THEN override(r1, appendix[<<r1.object_id, r1.subprogram_id>>])
        ELSE r1

\* Inspect._introspect_one_schema, the body of the override loop for one row.
OverrideRow(appendix, row) ==
    LET r1 == IF <<row.object_id, row.subprogram_id>> \in DOMAIN appendix
              THEN override(row, appendix[<<row.object_id, row.subprogram_id>>])
              ELSE row
    IN  IF <<r1.object_id, r1.subprogram_id, r1.position>> \in DOMAIN appendix
        THEN override(r1, appendix[<<r1.object_id, r1.subprogram_id, r1.position>>])
        ELSE r1

\* Inspect._introspect_one_schema, the override loop over the fetched rows.
OverrideRows(appendix, rows) == [i \in 1..Len(rows) |-> OverrideRow(appendix, rows[i])]

\* A line of the sql list: its text, and the fragment interpolated into it.
Line(text, fragment) == [text |-> text, fragment |-> fragment]

\* The bind variables a line of the sql list refers to: :schema in both base
\* queries, :no_package_name in the without-package one.
BindsReferenced(text) ==
    IF text = "INTROSPECTION_WITH_PACKAGE_SQL" THEN {"schema"}
    ELSE IF text = "INTROSPECTION_WITHOUT_PACKAGE_SQL" THEN {"schema", "no_package_name"}
    ELSE {}

BuildQueryBothBinds(schema) ==
    LET with_package == Line("INTROSPECTION_WITH_PACKAGE_SQL", <<>>)
        without_package == Line("INTROSPECTION_WITHOUT_PACKAGE_SQL", <<>>)
        union_all == Line("union all", <<>>)
        included_routines_from_packages ==
            Line("    and ao.owner || '.' || ao.object_name || '.' || ap.procedure_name in ({})",
                 schema.included_routines)
        included_routines_without_packages ==
            Line("  and aa.object_name in ({})", schema.included_routines_no_pkg)
        excluded_packages ==
            Line("  and ao.object_name not in ({})", schema.excluded_packages)
        excluded_routines_from_packages ==
            Line("  and ao.owner || '.' || ao.object_name || '.' || ap.procedure_name not in ({})",
                 schema.excluded_routines)
        excluded_routines_without_packages ==
            Line("  and ao.owner || '.' || ap.object_name not in ({})",
                 schema.excluded_routines_no_pkg)
        order_clause ==
            Line("order by package, object_id, subprogram_id, sequence, position", <<>>)
        only_schema == [b \in {"schema"} |-> schema.name]
        both_binds == [b \in {"schema", "no_package_name"} |->
                          IF b = "schema" THEN schema.name ELSE schema.no_package_name]
        has_packages == schema.included_packages # <<>>
        has_loose == schema.included_routines_no_pkg # <<>>
    IN  IF schema.include_routines # <<>>
        THEN [sql |-> (IF has_packages /\ ~has_loose
                       THEN <<with_package, included_routines_from_packages>>
                       ELSE <<>>)
                      \o (IF has_packages /\ has_loose
                          THEN <<with_package, included_routines_from_packages, union_all,
                                 without_package, included_routines_without_packages>>
                          ELSE <<>>)
                      \o (IF ~has_packages /\ has_loose
                          THEN <<without_package, included_routines_without_packages>>
                          ELSE <<>>)
                      \o <<order_clause>>,
              binds |-> both_binds]
        ELSE [sql |-> <<with_package>>
                      \o (IF schema.exclude_packages # <<>>
                          THEN <<excluded_packages>> ELSE <<>>)
                      \o (IF schema.exclude_routines # <<>>
                          THEN <<excluded_routines_from_packages>> ELSE <<>>)
                      \o <<union_all, without_package>>
                      \o (IF schema.excluded_routines_no_pkg # <<>>
                          THEN <<excluded_routines_without_packages>> ELSE <<>>)
                      \o <<order_clause>>,
              binds |-> both_binds]

\* Inspect._introspect_one_schema, the query and its binds for a Schema.
BuildQuery(schema) ==
    LET with_package == Line("INTROSPECTION_WITH_PACKAGE_SQL", <<>>)
        without_package == Line("INTROSPECTION_WITHOUT_PACKAGE_SQL", <<>>)
        union_all == Line("union all", <<>>)
        included_routines_from_packages ==
            Line("    and ao.owner || '.' || ao.object_name || '.' || ap.procedure_name in ({})",
                 schema.included_routines)
        included_routines_without_packages ==
            Line("  and aa.object_name in ({})", schema.included_routines_no_pkg)
        excluded_packages ==
            Line("  and ao.object_name not in ({})", schema.excluded_packages)
        excluded_routines_from_packages ==
            Line("  and ao.owner || '.' || ao.object_name || '.' || ap.procedure_name not in ({})",
                 schema.excluded_routines)
        excluded_routines_without_packages ==
            Line("  and ao.owner || '.' || ap.object_name not in ({})",
                 schema.excluded_routines_no_pkg)
        order_clause ==
            Line("order by package, object_id, subprogram_id, sequence, position", <<>>)
        only_schema == [b \in {"schema"} |-> schema.name]
        both_binds == [b \in {"schema", "no_package_name"} |->
                          IF b = "schema" THEN schema.name ELSE schema.no_package_name]
        has_packages == schema.included_packages # <<>>
        has_loose == schema.included_routines_no_pkg # <<>>
    IN  IF schema.include_routines # <<>>
        THEN [sql |-> (IF has_packages /\ ~has_loose
                       THEN <<with_package, included_routines_from_packages>>
                       ELSE <<>>)
                      \o (IF has_packages /\ has_loose
                          THEN <<with_package, included_routines_from_packages, union_all,
                                 without_package, included_routines_without_packages>>
                          ELSE <<>>)
                      \o (IF ~has_packages /\ has_loose
                          THEN <<without_package, included_routines_without_packages>>
                          ELSE <<>>)
                      \o <<order_clause>>,
              binds |-> IF has_loose THEN both_binds ELSE only_schema]
        ELSE [sql |-> <<with_package>>
                      \o (IF schema.exclude_packages # <<>>
                          THEN <<excluded_packages>> ELSE <<>>)
                      \o (IF schema.exclude_routines # <<>>
                          THEN <<excluded_routines_from_packages>> ELSE <<>>)
                      \o <<union_all, without_package>>
                      \o (IF schema.excluded_routines_no_pkg # <<>>
                          THEN <<excluded_routines_without_packages>> ELSE <<>>)
                      \o <<order_clause>>,
              binds |-> both_binds]


(***************************************************************************)
(* The configuration and the database contents the engine runs against     *)
(***************************************************************************)
\* The schemas configured for the database at index d of conf.databases.
SchemesOf(d) == IF d = 1 THEN 1..NumSchemes ELSE {1}

\* object_id of the routine the database at index d holds for schema i.
ObjectId(d, i) == d * 100 + i

\* One entry of a schema's introspection appendix, as SchemesSchema._post_load
\* keys it; position is <<>> for a subprogram-level entry.
IntrospectionAppendix(object_id, subprogram_id, position, new) ==
    [comment |-> <<>>, object_id |-> object_id, subprogram_id |-> subprogram_id,
     position |-> position, new |-> new]

\* The constructor arguments of the Schema i of database d: named a, b, ...;
\* the first schema of a database carries an appendix and an exclude list.
RawSchema(d, i) ==
    [name |-> <<Lowers[i]>>,
     no_package_name |-> <<>>,
     introspection_appendix |->
        IF i = 1
        THEN [k \in {<<ObjectId(d, i), 1>>, <<ObjectId(d, i), 1, 2>>} |->
                IF Len(k) = 2
                THEN IntrospectionAppendix(k[1], k[2], <<>>,
                        [a \in {"custom_type_schema", "custom_type"} |-> <<"X">>])
                ELSE IntrospectionAppendix(k[1], k[2], <<k[3]>>,
                        [a \in {"custom_type"} |-> <<"Y">>])]
        ELSE <<>>,
     exclude_packages |-> <<>>,
     exclude_routines |-> IF i = 1 THEN << <<"r">> >> ELSE <<>>,
     include_routines |-> <<>>]

\* Database.__post_init__ and its schemes, each through Schema.__post_init__.
Database(d) ==
    [name |-> Upper(<<"d", "b", Lowers[d]>>),
     schemes |-> [i \in SchemesOf(d) |-> CHOOSE sc \in SchemaPostInit(RawSchema(d, i)) : TRUE]]

\* conf.databases
Databases == [d \in 1..NumDatabases |-> Database(d)]

\* The values of one row of all_arguments joined as the queries select them.
RawRow(owner, object_id, position, data_level, data_type) ==
    [schema |-> owner, package |-> <<"P", "K", "G">>, is_package |-> 1,
     routine |-> <<"R">>, routine_type |-> <<"P", "R", "O", "C", "E", "D", "U", "R", "E">>,
     object_id |-> object_id, overload |-> <<>>, subprogram_id |-> 1,
     argument |-> <<"A", "R", "G">>, position |-> position, sequence |-> position,
     data_level |-> data_level, data_type |-> data_type,
     custom_type_schema |-> None, custom_type_package |-> None, custom_type |-> None,
     defaulted |-> <<"N">>, default_value |-> None, in_out |-> <<"I", "N">>]

\* cursor.execute(sql, binds); cursor.fetchall() against database d: the rows
\* of the owner bound to :schema, in the order of the order clause.
FetchAll(d, sql, binds) ==
    LET owner == binds["schema"]
        i == CHOOSE j \in 1..Len(Lowers) : <<Uppers[j]>> = owner
    IN  <<RawRow(owner, ObjectId(d, i), 1, 0, <<"N", "U", "M", "B", "E", "R">>),
          RawRow(owner, ObjectId(d, i), 2, 0, <<"V", "A", "R", "C", "H", "A", "R", "2">>)>>


(***************************************************************************)
(* State                                                                   *)
(***************************************************************************)
VARIABLES
    \* Inspect.introspection, the calling thread
    mainPc,          \* "loop", "fork", "join", "returned", "raised"
    mainDb,          \* index of db in conf.databases
    mainSchema,      \* index of schema in db.schemes
    mainJoin,        \* index of thread in the join loop
    threads,         \* the local list of started threads, each <<d, i>>
    introspection,   \* the local list of IntrospectionDatabase
    result,          \* self.result
    \* Inspect._introspect_one_schema, one thread per <<d, i>>
    workerPc,        \* "new", "run", "acquired", "fetched", "locked", "done", "failed"
    workerRows,      \* the thread's local rows
    cursor,          \* the statement and binds the thread executed
    lock             \* INTROSPECTION_DB_ADD_NEW_SCHEMA_LOCK: <<>> or <<holder>>

inspectVars ==
    <<mainPc, mainDb, mainSchema, mainJoin, threads, introspection, result,
      workerPc, workerRows, cursor, lock>>

Workers == {w \in (1..NumDatabases) \X (1..NumSchemes) : w[2] \in SchemesOf(w[1])}

InspectInit ==
    /\ mainPc = "loop"
    /\ mainDb = 1
    /\ mainSchema = 1
    /\ mainJoin = 1
    /\ threads = <<>>
    /\ introspection = <<>>
    /\ result = <<>>
    /\ workerPc = [w \in Workers |-> "new"]
    /\ workerRows = [w \in Workers |-> <<>>]
    /\ cursor = [w \in Workers |-> <<>>]
    /\ lock = <<>>

(***************************************************************************)
(* Inspect.introspection                                                   *)
(***************************************************************************)
\* IntrospectionDatabase(name=db.name)
IntrospectionDatabase(name) == [name |-> name, schemes |-> <<>>]

\* for db in self.conf.databases: a new IntrospectionDatabase is appended and
\* db.connect() returns the session pool.
MainConnect ==
    /\ mainPc = "loop"
    /\ mainDb <= NumDatabases
    /\ introspection' = Append(introspection, IntrospectionDatabase(Databases[mainDb].name))
    /\ mainPc' = "fork"
    /\ mainSchema' = 1
    /\ UNCHANGED <<mainDb, mainJoin, threads, result, workerPc, workerRows, cursor, lock>>

\* db.connect() raises: the exception leaves introspection().
MainConnectRaises ==
    /\ mainPc = "loop"
    /\ mainDb <= NumDatabases
    /\ introspection' = Append(introspection, IntrospectionDatabase(Databases[mainDb].name))
    /\ mainPc' = "raised"
    /\ UNCHANGED <<mainDb, mainSchema, mainJoin, threads, result, workerPc, workerRows,
                   cursor, lock>>

\* for schema in db.schemes: Thread(...), threads.append(thread), thread.start()
MainStartThread ==
    /\ mainPc = "fork"
    /\ mainSchema \in SchemesOf(mainDb)
    /\ threads' = Append(threads, <<mainDb, mainSchema>>)
    /\ workerPc' = [workerPc EXCEPT ![<<mainDb, mainSchema>>] = "run"]
    /\ mainSchema' = mainSchema + 1
    /\ UNCHANGED <<mainPc, mainDb, mainJoin, introspection, result, workerRows, cursor, lock>>

\* db.schemes is exhausted: the next db, or the join loop after the last one.
MainNextDb ==
    /\ mainPc = "fork"
    /\ mainSchema \notin SchemesOf(mainDb)
    /\ mainDb' = mainDb + 1
    /\ mainPc' = IF mainDb < NumDatabases THEN "loop" ELSE "join"
    /\ UNCHANGED <<mainSchema, mainJoin, threads, introspection, result, workerPc,
                   workerRows, cursor, lock>>

JoinedNoWait(w) == TRUE

\* thread.join() returns once the thread has ended, normally or by an exception.
Joined(w) == workerPc[w] \in {"done", "failed"}

\* for thread in threads: thread.join()
MainJoin ==
    /\ mainPc = "join"
    /\ mainJoin <= Len(threads)
    /\ Joined(threads[mainJoin])
    /\ mainJoin' = mainJoin + 1
    /\ UNCHANGED <<mainPc, mainDb, mainSchema, threads, introspection, result, workerPc,
                   workerRows, cursor, lock>>

\* self.result = introspection; return introspection
MainReturn ==
    /\ mainPc = "join"
    /\ mainJoin > Len(threads)
    /\ result' = introspection
    /\ mainPc' = "returned"
    /\ UNCHANGED <<mainDb, mainSchema, mainJoin, threads, introspection, workerPc,
                   workerRows, cursor, lock>>

(***************************************************************************)
(* Inspect._introspect_one_schema, the thread of schema w[2] of db w[1]    *)
(***************************************************************************)
SchemaOf(w) == Databases[w[1]].schemes[w[2]]

\* The query is built and session_pool.acquire() returns a connection.
WorkerAcquire(w) ==
    /\ workerPc[w] = "run"
    /\ workerPc' = [workerPc EXCEPT ![w] = "acquired"]
    /\ UNCHANGED <<mainPc, mainDb, mainSchema, mainJoin, threads, introspection, result,
                   workerRows, cursor, lock>>

\* session_pool.acquire() raises: the thread ends with the exception.
WorkerAcquireRaises(w) ==
    /\ workerPc[w] = "run"
    /\ workerPc' = [workerPc EXCEPT ![w] = "failed"]
    /\ UNCHANGED <<mainPc, mainDb, mainSchema, mainJoin, threads, introspection, result,
                   workerRows, cursor, lock>>

\* The rows of one schema as the thread holds them before the append:
\* fetched through the row factory, then overridden from the appendix.
IntrospectedRows(d, schema) ==
    LET query == BuildQuery(schema)
        fetched == FetchAll(d, query.sql, query.binds)
        rows == [k \in 1..Len(fetched) |-> IntrospectionRow(fetched[k])]
    IN  OverrideRows(schema.introspection_appendix, rows)

\* cursor.execute(sql, binds), cursor.fetchall(), the override loop, and the
\* IntrospectionSchema of the rows.
WorkerFetch(w) ==
    /\ workerPc[w] = "acquired"
    /\ cursor' = [cursor EXCEPT ![w] = <<BuildQuery(SchemaOf(w))>>]
    /\ workerRows' = [workerRows EXCEPT ![w] = IntrospectedRows(w[1], SchemaOf(w))]
    /\ workerPc' = [workerPc EXCEPT ![w] = "fetched"]
    /\ UNCHANGED <<mainPc, mainDb, mainSchema, mainJoin, threads, introspection, result, lock>>

WorkerFetchRaisesDiscards(w) ==
    /\ workerPc[w] = "acquired"
    /\ workerPc' = [workerPc EXCEPT ![w] = "failed"]
    /\ introspection' = [introspection EXCEPT ![w[1]].schemes = <<>>]
    /\ UNCHANGED <<mainPc, mainDb, mainSchema, mainJoin, threads, result,
                   workerRows, cursor, lock>>

\* cursor.execute() or cursor.fetchall() raises: the thread ends.
WorkerFetchRaises(w) ==
    /\ workerPc[w] = "acquired"
    /\ workerPc' = [workerPc EXCEPT ![w] = "failed"]
    /\ UNCHANGED <<mainPc, mainDb, mainSchema, mainJoin, threads, introspection, result,
                   workerRows, cursor, lock>>

WorkerLockNoWait(w) ==
    /\ workerPc[w] = "fetched"
    /\ lock' = <<w>>
    /\ workerPc' = [workerPc EXCEPT ![w] = "locked"]
    /\ UNCHANGED <<mainPc, mainDb, mainSchema, mainJoin, threads, introspection, result,
                   workerRows, cursor>>

\* with INTROSPECTION_DB_ADD_NEW_SCHEMA_LOCK: the lock is taken when free.
WorkerLock(w) ==
    /\ workerPc[w] = "fetched"
    /\ lock = <<>>
    /\ lock' = <<w>>
    /\ workerPc' = [workerPc EXCEPT ![w] = "locked"]
    /\ UNCHANGED <<mainPc, mainDb, mainSchema, mainJoin, threads, introspection, result,
                   workerRows, cursor>>

IntrospectionSchemaNamedAsBucket(schema, rows) ==
    [name |-> schema.no_package_name, no_package_name |-> schema.no_package_name,
     rows |-> rows]

\* IntrospectionSchema(name=..., no_package_name=..., rows=rows)
IntrospectionSchema(schema, rows) ==
    [name |-> schema.name, no_package_name |-> schema.no_package_name, rows |-> rows]

AppendSchemaOverwrites(schemes, introspection_schema) == <<introspection_schema>>

\* introspection_db.schemes.append(introspection_schema)
AppendSchema(schemes, introspection_schema) == Append(schemes, introspection_schema)

\* The append under the lock, and the release of the lock on leaving the with.
WorkerAppend(w) ==
    /\ workerPc[w] = "locked"
    /\ introspection' =
          [introspection EXCEPT ![w[1]].schemes =
              AppendSchema(@, IntrospectionSchema(SchemaOf(w), workerRows[w]))]
    /\ lock' = <<>>
    /\ workerPc' = [workerPc EXCEPT ![w] = "done"]
    /\ UNCHANGED <<mainPc, mainDb, mainSchema, mainJoin, threads, result, workerRows, cursor>>

(***************************************************************************)
(* dbsg.lib.intermediate_representation: the tree and the dispatch         *)
(***************************************************************************)
Last(list) == list[Len(list)]

\* The outcome of a call: the value it returns, or the exception it raises.
Returns(value) == [error |-> "", value |-> value]
Raises(error) == [error |-> error, value |-> <<>>]

\* SimpleArgument.from_row / ComplexArgument.from_row, chosen on COMPLEX_TYPES
\* as Abstract.intermediate_representation does.
ArgumentFromRow(row) ==
    LET simple ==
            [cls |-> "SimpleArgument", name |-> row.argument, position |-> row.position,
             sequence |-> row.sequence, data_level |-> row.data_level,
             data_type |-> row.data_type, custom_type_schema |-> row.custom_type_schema,
             custom_type_package |-> row.custom_type_package,
             custom_type |-> row.custom_type, defaulted |-> row.defaulted,
             default_value |-> row.default_value, in_out |-> row.in_out]
    IN  IF row.data_type \notin COMPLEX_TYPES THEN simple
        ELSE [a \in DOMAIN simple \cup {"arguments"} |->
                IF a = "arguments" THEN <<>>
                ELSE IF a = "cls" THEN "ComplexArgument"
                ELSE simple[a]]

RoutineFromRowKeepsPackage(row) ==
    [name |-> row.routine, type |-> row.routine_type, object_id |-> row.object_id,
     overload |-> row.overload, subprogram_id |-> row.subprogram_id,
     fqdn |-> FQDN(row.schema, row.package, row.routine),
     arguments |-> <<>>]

\* Routine.from_row
RoutineFromRow(row) ==
    [name |-> row.routine, type |-> row.routine_type, object_id |-> row.object_id,
     overload |-> row.overload, subprogram_id |-> row.subprogram_id,
     fqdn |-> FQDN(row.schema, IF row.is_package THEN row.package ELSE <<>>, row.routine),
     arguments |-> <<>>]

\* ComplexArgument.complex_child and Routine.complex_child, on the arguments
\* list: arguments[-1] of an empty list is an IndexError.
ComplexChild(arguments) ==
    IF arguments = <<>> THEN Raises("IndexError")
    ELSE IF Last(arguments).cls = "ComplexArgument" THEN Returns(Last(arguments))
    ELSE Raises("TypeError")

\* The message an exception that leaves the builder carries: the literal of
\* the two complex_child properties for a TypeError, and the message of
\* self.arguments[-1] on an empty list for an IndexError.
ExceptionMessage(error) ==
    IF error = "TypeError"
    THEN <<"T", "h", "e", "r", "e", " ", "i", "s", " ", "n", "o", " ", "c", "o",
         "m", "p", "l", "e", "x", " ", "c", "h", "i", "l", "d", "r", "e", "n",
         ".">>
    ELSE <<"l", "i", "s", "t", " ", "i", "n", "d", "e", "x", " ", "o", "u", "t",
         " ", "o", "f", " ", "r", "a", "n", "g", "e">>

ComplexDispatchNoDescent(self, argument) ==
    Returns([self EXCEPT !.arguments = Append(@, argument)])

RECURSIVE ComplexDispatch(_, _)
\* ComplexArgument.dispatch_argument: self after the call, or the exception.
ComplexDispatch(self, argument) ==
    IF argument.data_level > self.data_level + 1
    THEN LET child == ComplexChild(self.arguments)
         IN  IF child.error # "" THEN child
             ELSE LET below == ComplexDispatch(child.value, argument)
                  IN  IF below.error # "" THEN below
                      ELSE Returns([self EXCEPT !.arguments[Len(self.arguments)] = below.value])
    ELSE Returns([self EXCEPT !.arguments = Append(@, argument)])

RoutineDispatchOnTop(self, argument) ==
    IF argument.data_level = 0
    THEN Returns([self EXCEPT !.arguments = <<argument>> \o @])
    ELSE LET child == ComplexChild(self.arguments)
         IN  IF child.error # "" THEN child
             ELSE LET below == ComplexDispatch(child.value, argument)
                  IN  IF below.error # "" THEN below
                      ELSE Returns([self EXCEPT !.arguments[Len(self.arguments)] = below.value])

\* Routine.dispatch_argument: the routine after the call, or the exception.
RoutineDispatch(self, argument) ==
    IF argument.data_level = 0
    THEN Returns([self EXCEPT !.arguments = Append(@, argument)])
    ELSE LET child == ComplexChild(self.arguments)
         IN  IF child.error # "" THEN child
             ELSE LET below == ComplexDispatch(child.value, argument)
                  IN  IF below.error # "" THEN below
                      ELSE Returns([self EXCEPT !.arguments[Len(self.arguments)] = below.value])

DispatchRoutineReusesLast(self, row, routine) ==
    LET reuse_schema == self.schemes # <<>>
        schemes == IF reuse_schema THEN self.schemes
                   ELSE Append(self.schemes, [name |-> row.schema, packages |-> <<>>])
        schema == Last(schemes)
        reuse_package == schema.packages # <<>> /\ row.package = Last(schema.packages).name
        packages == IF reuse_package THEN schema.packages
                    ELSE Append(schema.packages,
                                [name |-> row.package, is_package |-> row.is_package,
                                 routines |-> <<>>])
        package == Last(packages)
    IN  [self EXCEPT !.schemes =
            [schemes EXCEPT ![Len(schemes)].packages =
                [packages EXCEPT ![Len(packages)].routines = Append(package.routines, routine)]]]

\* Database.dispatch_routine
DispatchRoutine(self, row, routine) ==
    LET reuse_schema == self.schemes # <<>> /\ row.schema = Last(self.schemes).name
        schemes == IF reuse_schema THEN self.schemes
                   ELSE Append(self.schemes, [name |-> row.schema, packages |-> <<>>])
        schema == Last(schemes)
        reuse_package == schema.packages # <<>> /\ row.package = Last(schema.packages).name
        packages == IF reuse_package THEN schema.packages
                    ELSE Append(schema.packages,
                                [name |-> row.package, is_package |-> row.is_package,
                                 routines |-> <<>>])
        package == Last(packages)
    IN  [self EXCEPT !.schemes =
            [schemes EXCEPT ![Len(schemes)].packages =
                [packages EXCEPT ![Len(packages)].routines = Append(package.routines, routine)]]]

\* The Routine the local variable routine refers to: the one created last,
\* which dispatch_routine appended to the last package of the last schema.
CurrentRoutine(db) == Last(Last(Last(db.schemes).packages).routines)

WithCurrentRoutine(db, routine) ==
    LET s == Len(db.schemes)
        p == Len(db.schemes[s].packages)
        r == Len(db.schemes[s].packages[p].routines)
    IN  [db EXCEPT !.schemes[s].packages[p].routines[r] = routine]

StartsRoutineOnSubprogramIdOnly(o, s, row) == s # <<row.subprogram_id>>

StartsRoutineOnObjectIdOnly(o, s, row) == o # <<row.object_id>>

\* if oid != row.object_id or sid != row.subprogram_id; None is <<>>.
StartsRoutine(o, s, row) == o # <<row.object_id>> \/ s # <<row.subprogram_id>>

FoldRowSwallows(db, o, s, row) ==
    LET argument == ArgumentFromRow(row)
        placed == IF StartsRoutine(o, s, row)
                  THEN DispatchRoutine(db, row, RoutineFromRow(row))
                  ELSE db
        dispatched == RoutineDispatch(CurrentRoutine(placed), argument)
    IN  IF dispatched.error # ""
        THEN Returns(placed)
        ELSE Returns(WithCurrentRoutine(placed, dispatched.value))

\* Abstract.intermediate_representation, the body of the loop over the rows:
\* the database after the row, or the exception that leaves the builder.
FoldRow(db, o, s, row) ==
    LET argument == ArgumentFromRow(row)
        placed == IF StartsRoutine(o, s, row)
                  THEN DispatchRoutine(db, row, RoutineFromRow(row))
                  ELSE db
        dispatched == RoutineDispatch(CurrentRoutine(placed), argument)
    IN  IF dispatched.error # ""
        THEN [error |-> dispatched.error, value |-> placed]
        ELSE Returns(WithCurrentRoutine(placed, dispatched.value))


(***************************************************************************)
(* Abstract.intermediate_representation over one IntrospectionDatabase     *)
(***************************************************************************)
VARIABLES
    introspected,                  \* the IntrospectionDatabase, as far as iterated
    database,                      \* the Database being built
    oid,                           \* sentinel: <<>> for None, else <<object_id>>
    sid,                           \* sentinel: <<>> for None, else <<subprogram_id>>
    irPc,                          \* "running", "returned", "raised"
    irError,                       \* the exception that left the builder
    intermediate_representation    \* the list the builder returns

irVars == <<introspected, database, oid, sid, irPc, irError, intermediate_representation>>

\* The routines the database may report rows of: in schema A a package P of
\* two subprograms and a loose routine in the no-package bucket Q, in schema
\* B a package P of one subprogram; object_id is unique in the database.
RoutineIds ==
    {[schema |-> <<"A">>, package |-> <<"P">>, is_package |-> 1, routine |-> <<"R">>,
      object_id |-> 1, subprogram_id |-> 1],
     [schema |-> <<"A">>, package |-> <<"P">>, is_package |-> 1, routine |-> <<"T">>,
      object_id |-> 1, subprogram_id |-> 2],
     [schema |-> <<"A">>, package |-> <<"Q">>, is_package |-> 0, routine |-> <<"U">>,
      object_id |-> 2, subprogram_id |-> 2],
     [schema |-> <<"B">>, package |-> <<"P">>, is_package |-> 1, routine |-> <<"R">>,
      object_id |-> 3, subprogram_id |-> 1]}

\* The data types the rows carry: a scalar one and a structural one.
DataTypes == {<<"N", "U", "M", "B", "E", "R">>, <<"T", "A", "B", "L", "E">>}

\* The data levels the rows carry: MaxRows rows nest no deeper than MaxRows - 1.
DataLevels == 0..(MaxRows - 1)

\* A row of routine id, through the row factory.
RowOf(id, sequence, data_level, data_type) ==
    IntrospectionRow(
        [schema |-> id.schema, package |-> id.package, is_package |-> id.is_package,
         routine |-> id.routine,
         routine_type |-> <<"P", "R", "O", "C", "E", "D", "U", "R", "E">>,
         object_id |-> id.object_id, overload |-> <<>>,
         subprogram_id |-> id.subprogram_id,
         argument |-> <<"A", "R", "G">>, position |-> sequence, sequence |-> sequence,
         data_level |-> data_level, data_type |-> data_type,
         custom_type_schema |-> None, custom_type_package |-> None, custom_type |-> None,
         defaulted |-> <<"N">>, default_value |-> None, in_out |-> <<"I", "N">>])

RECURSIVE SumLen(_)
SumLen(batches) ==
    IF batches = <<>> THEN 0 ELSE Len(batches[1].rows) + SumLen(Tail(batches))

\* The rows iterated so far, over all batches.
RowCount == SumLen(introspected.schemes)

IRInit ==
    /\ introspected = [name |-> <<"D", "B">>, schemes |-> <<>>]
    /\ database = [name |-> Lower(<<"D", "B">>), schemes |-> <<>>]
    /\ oid = <<>>
    /\ sid = <<>>
    /\ irPc = "running"
    /\ irError = ""
    /\ intermediate_representation = <<>>

\* The batch the next row belongs to: the one being iterated when it is the
\* batch of the row's schema, else the next batch of introspected.schemes; a
\* schema configured twice in a row gives a next batch of the same name.
BatchesWith(batches, row, next_batch) ==
    IF batches # <<>> /\ Last(batches).name = Upper(row.schema) /\ ~next_batch
    THEN [batches EXCEPT ![Len(batches)].rows = Append(@, row)]
    ELSE Append(batches,
                IntrospectionSchema(
                    [name |-> Upper(row.schema),
                     no_package_name |-> Upper(row.schema \o NoPkgSuffix)],
                    <<row>>))

\* for schema in introspected.schemes: for row in schema.rows: the body of the
\* loop for the next row, whatever the database reported.
IRRow ==
    /\ irPc = "running"
    /\ RowCount < MaxRows
    /\ \E id \in RoutineIds, data_level \in DataLevels, data_type \in DataTypes,
          next_batch \in BOOLEAN :
          LET row == RowOf(id, RowCount + 1, data_level, data_type)
              folded == FoldRow(database, oid, sid, row)
          IN  /\ introspected' =
                    [introspected EXCEPT !.schemes = BatchesWith(@, row, next_batch)]
              /\ database' = folded.value
              /\ IF folded.error # ""
                 THEN /\ irPc' = "raised"
                      /\ irError' = folded.error
                      /\ UNCHANGED <<oid, sid>>
                 ELSE /\ oid' = <<row.object_id>>
                      /\ sid' = <<row.subprogram_id>>
                      /\ UNCHANGED <<irPc, irError>>
    /\ UNCHANGED intermediate_representation

\* The batches are exhausted: intermediate_representation.append(database) and
\* the list is returned.
IRReturn ==
    /\ irPc = "running"
    /\ intermediate_representation' = Append(intermediate_representation, database)
    /\ irPc' = "returned"
    /\ UNCHANGED <<introspected, database, oid, sid, irError>>


(***************************************************************************)
(* The override loop of Inspect._introspect_one_schema on its own          *)
(***************************************************************************)
VARIABLES
    ovAppendix,    \* schema.introspection_appendix
    ovRows,        \* rows as cursor.fetchall() returned them
    ovResult,      \* rows after the override loop
    ovPc           \* "fetched", "overridden"

ovVars == <<ovAppendix, ovRows, ovResult, ovPc>>

\* The attributes an appendix entry may replace: IntrospectionAppendix.__init__
\* pops comment, object_id, subprogram_id and position out of the entry, so
\* new never names them.
OverrideAttributes == {"custom_type", "data_type"}

\* The replacement values: X, Y, ...
OverrideValues == {<<Uppers[23 + v]>> : v \in 1..NumValues}

\* The replacement maps an entry may carry.
NewMaps ==
    UNION {[attrs -> OverrideValues] : attrs \in SUBSET OverrideAttributes}

\* The keys SchemesSchema._post_load may build for the fetched rows' routine.
AppendixKeys == {<<1, 1>>, <<1, 1, 1>>, <<1, 1, 2>>}

\* The appendices of a schema: any set of keys, each with its entry.
Appendices ==
    UNION {{[k \in keys |->
                IntrospectionAppendix(k[1], k[2],
                                      IF Len(k) = 3 THEN <<k[3]>> ELSE <<>>,
                                      new[k])] : new \in [keys -> NewMaps]}
           : keys \in SUBSET AppendixKeys}

\* The rows fetched: two arguments of subprogram 1 and one of subprogram 2.
FetchedRows ==
    <<RowOf(CHOOSE id \in RoutineIds : id.schema = <<"A">> /\ id.subprogram_id = 1 /\ id.object_id = 1,
            1, 0, <<"N", "U", "M", "B", "E", "R">>),
      RowOf(CHOOSE id \in RoutineIds : id.schema = <<"A">> /\ id.subprogram_id = 1 /\ id.object_id = 1,
            2, 0, <<"N", "U", "M", "B", "E", "R">>),
      RowOf(CHOOSE id \in RoutineIds : id.schema = <<"A">> /\ id.subprogram_id = 2 /\ id.object_id = 1,
            1, 0, <<"N", "U", "M", "B", "E", "R">>)>>

OverrideIdle ==
    /\ ovAppendix = <<>>
    /\ ovRows = <<>>
    /\ ovResult = <<>>
    /\ ovPc = "fetched"

OverrideInit ==
    /\ ovAppendix \in Appendices
    /\ ovRows = FetchedRows
    /\ ovResult = <<>>
    /\ ovPc = "fetched"

\* for row in rows: the two lookups and overrides.
OverrideLoop ==
    /\ ovPc = "fetched"
    /\ ovResult' = OverrideRows(ovAppendix, ovRows)
    /\ ovPc' = "overridden"
    /\ UNCHANGED <<ovAppendix, ovRows>>

(***************************************************************************)
(* Schema.normalize on its own                                             *)
(***************************************************************************)
VARIABLES
    nzName,        \* the argument name
    nzObjects,     \* the argument objects
    nzNormalized,  \* the list returned
    nzPc           \* "called", "returned"

nzVars == <<nzName, nzObjects, nzNormalized, nzPc>>

\* The segments the dotted specifiers are made of, the empty one included.
Segments == {<<>>, <<"S">>, <<"s">>, <<"P">>}

\* The schema names normalize is called with.
SchemaNames == {<<"S">>, <<"s">>}

\* The dotted specifiers of at most MaxSegs segments.
Specifiers == {Join(<<".">>, segs) : segs \in SeqsUpTo(Segments, MaxSegs) \ {<<>>}}

NormalizeIdle ==
    /\ nzName = <<>>
    /\ nzObjects = <<>>
    /\ nzNormalized = <<>>
    /\ nzPc = "called"

NormalizeInit ==
    /\ nzName \in SchemaNames
    /\ nzObjects \in {<<>>} \cup {<<o>> : o \in Specifiers}
    /\ nzNormalized = <<>>
    /\ nzPc = "called"

\* Schema.normalize(name, objects)
NormalizeCall ==
    /\ nzPc = "called"
    /\ nzNormalized' = normalize(nzName, nzObjects)
    /\ nzPc' = "returned"
    /\ UNCHANGED <<nzName, nzObjects>>

(***************************************************************************)
(* The construction of a Schema                                            *)
(***************************************************************************)
VARIABLES
    scRaw,         \* the arguments of the constructor
    scSchema,      \* the Schema after __post_init__, <<>> before
    scQuery,       \* the sql list and the binds built for the Schema, <<>> before
    scPc           \* "constructed", "compiled", "raised", "queried"

scVars == <<scRaw, scSchema, scQuery, scPc>>

\* The object specifiers the configured lists are drawn from: r, p.r, S.r,
\* s.r, S.p.r, S.p.q.r and the empty string.
SampleObjects ==
    {<<"r">>, <<"p", ".", "r">>, <<"S", ".", "r">>, <<"s", ".", "r">>,
     <<"S", ".", "p", ".", "r">>, <<"S", ".", "p", ".", "q", ".", "r">>, <<>>}

\* The package names exclude_packages is drawn from.
SamplePackages == {<<"p">>}

SchemaIdle ==
    /\ scRaw = <<>>
    /\ scSchema = <<>>
    /\ scQuery = <<>>
    /\ scPc = "constructed"

SchemaInit ==
    /\ \E name \in {<<"s">>, <<"S">>}, no_package_name \in {<<>>, <<"n">>},
          include_routines \in SeqsUpTo(SampleObjects, MaxObjects) :
          \E exclude_routines \in
                SeqsUpTo(SampleObjects, MaxObjects - Len(include_routines)) :
             \E exclude_packages \in
                   SeqsUpTo(SamplePackages,
                            MaxObjects - Len(include_routines) - Len(exclude_routines)) :
                scRaw = [name |-> name,
                         no_package_name |-> no_package_name,
                         introspection_appendix |-> <<>>,
                         exclude_packages |-> exclude_packages,
                         exclude_routines |-> exclude_routines,
                         include_routines |-> include_routines]
    /\ scSchema = <<>>
    /\ scQuery = <<>>
    /\ scPc = "constructed"

\* Schema.__post_init__ completes.
SchemaCompile ==
    /\ scPc = "constructed"
    /\ \E schema \in SchemaPostInit(scRaw) : scSchema' = schema
    /\ scPc' = "compiled"
    /\ UNCHANGED <<scRaw, scQuery>>

\* Schema.__post_init__ raises the ValueError of FQDN(*routine).
SchemaRaises ==
    /\ scPc = "constructed"
    /\ SchemaPostInit(scRaw) = {}
    /\ scPc' = "raised"
    /\ UNCHANGED <<scRaw, scSchema, scQuery>>

\* Inspect._introspect_one_schema builds the sql list and the binds of the
\* compiled Schema.
SchemaBuildQuery ==
    /\ scPc = "compiled"
    /\ scQuery' = BuildQuery(scSchema)
    /\ scPc' = "queried"
    /\ UNCHANGED <<scRaw, scSchema>>

(***************************************************************************)
(* One row from the cursor to the nodes made of it                         *)
(***************************************************************************)
VARIABLES
    rwRaw,         \* the values of the row as the cursor passes them
    rwRow,         \* the IntrospectionRow, <<>> before
    rwArgument,    \* the argument node made of the row, <<>> before
    rwRoutine,     \* the Routine made of the row, <<>> before
    rwStr,         \* str() of the routine's FQDN, <<>> before
    rwPc           \* "fetched", "row", "argument", "routine", "str"

rwVars == <<rwRaw, rwRow, rwArgument, rwRoutine, rwStr, rwPc>>

\* The data types all_arguments reports, as Oracle spells them.
OracleDataTypes ==
    {<<"R", "E", "F", " ", "C", "U", "R", "S", "O", "R">>,
     <<"O", "B", "J", "E", "C", "T">>,
     <<"V", "A", "R", "R", "A", "Y">>,
     <<"T", "A", "B", "L", "E">>,
     <<"R", "E", "C", "O", "R", "D">>,
     <<"P", "L", "/", "S", "Q", "L", " ", "T", "A", "B", "L", "E">>,
     <<"P", "L", "/", "S", "Q", "L", " ", "R", "E", "C", "O", "R", "D">>,
     <<"N", "U", "M", "B", "E", "R">>,
     <<"V", "A", "R", "C", "H", "A", "R", "2">>,
     <<"D", "A", "T", "E">>,
     <<"P", "L", "/", "S", "Q", "L", " ", "B", "O", "O", "L", "E", "A", "N">>}

\* The rows the two base queries select: of a package (is_package 1), or of a
\* loose routine under the no-package name (is_package 0).
FetchedRowValues ==
    {[RawRow(<<"S">>, 1, 1, 0, data_type) EXCEPT
         !.package = IF is_package = 1 THEN <<"P", "K", "G">>
                     ELSE <<"S">> \o Upper(NoPkgSuffix),
         !.is_package = is_package,
         !.defaulted = defaulted,
         !.overload = overload,
         !.custom_type = custom_type]
     : data_type \in OracleDataTypes, is_package \in {0, 1},
       defaulted \in {<<"Y">>, <<"N">>}, overload \in {<<>>, <<1>>, <<2>>},
       custom_type \in {None, <<"T">>}}

RowIdle ==
    /\ rwRaw = <<>>
    /\ rwRow = <<>>
    /\ rwArgument = <<>>
    /\ rwRoutine = <<>>
    /\ rwStr = <<>>
    /\ rwPc = "fetched"

RowInit ==
    /\ rwRaw \in FetchedRowValues
    /\ rwRow = <<>>
    /\ rwArgument = <<>>
    /\ rwRoutine = <<>>
    /\ rwStr = <<>>
    /\ rwPc = "fetched"

\* cursor.rowfactory = IntrospectionRow: the row is constructed.
RowConstruct ==
    /\ rwPc = "fetched"
    /\ rwRaw # <<>>
    /\ rwRow' = IntrospectionRow(rwRaw)
    /\ rwPc' = "row"
    /\ UNCHANGED <<rwRaw, rwArgument, rwRoutine, rwStr>>

\* SimpleArgument.from_row(row) or ComplexArgument.from_row(row)
RowArgument ==
    /\ rwPc = "row"
    /\ rwArgument' = ArgumentFromRow(rwRow)
    /\ rwPc' = "argument"
    /\ UNCHANGED <<rwRaw, rwRow, rwRoutine, rwStr>>

\* Routine.from_row(row)
RowRoutine ==
    /\ rwPc = "argument"
    /\ rwRoutine' = RoutineFromRow(rwRow)
    /\ rwPc' = "routine"
    /\ UNCHANGED <<rwRaw, rwRow, rwArgument, rwStr>>

\* str(routine.fqdn)
RowFqdnStr ==
    /\ rwPc = "routine"
    /\ rwStr' = FQDNStr(rwRoutine.fqdn)
    /\ rwPc' = "str"
    /\ UNCHANGED <<rwRaw, rwRow, rwArgument, rwRoutine>>

(***************************************************************************)
(* The connections of one session pool in Inspect._introspect_one_schema   *)
(***************************************************************************)
VARIABLES
    plPc,      \* per worker: "new", "run", "acquired", "fetched", "done", "failed"
    plBusy     \* the workers whose connection is checked out of the pool

plVars == <<plPc, plBusy>>

\* The threads of one database: one schema more than the pool's max.
PoolWorkers == 1..(PoolMax + 1)

PoolIdle ==
    /\ plPc = [w \in PoolWorkers |-> "new"]
    /\ plBusy = {}

\* Every thread of the database is started.
PoolInit ==
    /\ plPc = [w \in PoolWorkers |-> "run"]
    /\ plBusy = {}

\* connection = session_pool.acquire(): a connection of the pool, of which
\* there are no more than max, is checked out.
PoolAcquire(w) ==
    /\ plPc[w] = "run"
    /\ Cardinality(plBusy) < PoolMax
    /\ plBusy' = plBusy \cup {w}
    /\ plPc' = [plPc EXCEPT ![w] = "acquired"]

\* session_pool.acquire() raises: the thread ends with the exception.
PoolAcquireRaises(w) ==
    /\ plPc[w] = "run"
    /\ plPc' = [plPc EXCEPT ![w] = "failed"]
    /\ UNCHANGED plBusy

\* with connection.cursor() as cursor: execute, fetchall; the cursor is
\* closed, the connection stays with the thread.
PoolFetch(w) ==
    /\ plPc[w] = "acquired"
    /\ plPc' = [plPc EXCEPT ![w] = "fetched"]
    /\ UNCHANGED plBusy

\* cursor.execute() or cursor.fetchall() raises: the thread ends with the
\* exception, nothing hands the connection back.
PoolFetchRaises(w) ==
    /\ plPc[w] = "acquired"
    /\ plPc' = [plPc EXCEPT ![w] = "failed"]
    /\ UNCHANGED plBusy

\* The override loop and the append under the lock: the function returns,
\* nothing hands the connection back.
PoolAppend(w) ==
    /\ plPc[w] = "fetched"
    /\ plPc' = [plPc EXCEPT ![w] = "done"]
    /\ UNCHANGED plBusy

\* The local variable connection of an ended thread is the last reference to
\* the connection: whether and when the driver takes the connection back on
\* collecting the object is not the code's doing.
PoolCollect(w) ==
    /\ plPc[w] \in {"done", "failed"}
    /\ w \in plBusy
    /\ plBusy' = plBusy \ {w}
    /\ UNCHANGED plPc

(***************************************************************************)
(* Specifications                                                          *)
(***************************************************************************)
vars == <<inspectVars, irVars, ovVars, nzVars, scVars, rwVars, plVars>>

\* The introspection engine: Inspect.introspection and its threads.
Init == InspectInit /\ IRInit /\ OverrideIdle /\ NormalizeIdle /\ SchemaIdle /\ RowIdle /\ PoolIdle

notInspectVars == <<irVars, ovVars, nzVars, scVars, rwVars, plVars>>

Next ==
    \/ MainConnect /\ UNCHANGED notInspectVars
    \/ MainConnectRaises /\ UNCHANGED notInspectVars
    \/ MainStartThread /\ UNCHANGED notInspectVars
    \/ MainNextDb /\ UNCHANGED notInspectVars
    \/ MainJoin /\ UNCHANGED notInspectVars
    \/ MainReturn /\ UNCHANGED notInspectVars
    \/ \E w \in Workers : WorkerAcquire(w) /\ UNCHANGED notInspectVars
    \/ \E w \in Workers : WorkerAcquireRaises(w) /\ UNCHANGED notInspectVars
    \/ \E w \in Workers : WorkerFetch(w) /\ UNCHANGED notInspectVars
    \/ \E w \in Workers : WorkerFetchRaises(w) /\ UNCHANGED notInspectVars
    \/ \E w \in Workers : WorkerLock(w) /\ UNCHANGED notInspectVars
    \/ \E w \in Workers : WorkerAppend(w) /\ UNCHANGED notInspectVars

Spec == Init /\ [][Next]_vars

\* The tree reconstruction builder, over every row stream within the bounds.
notIrVars == <<inspectVars, ovVars, nzVars, scVars, rwVars, plVars>>

BuilderNext ==
    \/ IRRow /\ UNCHANGED notIrVars
    \/ IRReturn /\ UNCHANGED notIrVars

SpecBuilder == Init /\ [][BuilderNext]_vars

\* The override loop, over every appendix within the bounds.
OverrideSpecInit ==
    InspectInit /\ IRInit /\ OverrideInit /\ NormalizeIdle /\ SchemaIdle /\ RowIdle /\ PoolIdle

OverrideNext ==
    OverrideLoop /\ UNCHANGED <<inspectVars, irVars, nzVars, scVars, rwVars, plVars>>

SpecOverride == OverrideSpecInit /\ [][OverrideNext]_vars

\* Schema.normalize, over every name and specifier within the bounds.
NormalizeSpecInit ==
    InspectInit /\ IRInit /\ OverrideIdle /\ NormalizeInit /\ SchemaIdle /\ RowIdle /\ PoolIdle

NormalizeNext ==
    NormalizeCall /\ UNCHANGED <<inspectVars, irVars, ovVars, scVars, rwVars, plVars>>

SpecNormalize == NormalizeSpecInit /\ [][NormalizeNext]_vars

\* The construction of a Schema, over the sample filter lists.
SchemaSpecInit ==
    InspectInit /\ IRInit /\ OverrideIdle /\ NormalizeIdle /\ SchemaInit /\ RowIdle /\ PoolIdle

notScVars == <<inspectVars, irVars, ovVars, nzVars, rwVars, plVars>>

SchemaNext ==
    \/ SchemaCompile /\ UNCHANGED notScVars
    \/ SchemaRaises /\ UNCHANGED notScVars
    \/ SchemaBuildQuery /\ UNCHANGED notScVars

SpecSchema == SchemaSpecInit /\ [][SchemaNext]_vars

\* One fetched row through the row factory and the constructors of the tree.
RowSpecInit ==
    InspectInit /\ IRInit /\ OverrideIdle /\ NormalizeIdle /\ SchemaIdle /\ RowInit
    /\ PoolIdle

notRwVars == <<inspectVars, irVars, ovVars, nzVars, scVars, plVars>>

RowNext ==
    \/ RowConstruct /\ UNCHANGED notRwVars
    \/ RowArgument /\ UNCHANGED notRwVars
    \/ RowRoutine /\ UNCHANGED notRwVars
    \/ RowFqdnStr /\ UNCHANGED notRwVars

SpecRow == RowSpecInit /\ [][RowNext]_vars

\* The threads of one database on a session pool of PoolMax connections.
PoolSpecInit ==
    InspectInit /\ IRInit /\ OverrideIdle /\ NormalizeIdle /\ SchemaIdle /\ RowIdle
    /\ PoolInit

notPlVars == <<inspectVars, irVars, ovVars, nzVars, scVars, rwVars>>

PoolNext ==
    \/ \E w \in PoolWorkers : PoolAcquire(w) /\ UNCHANGED notPlVars
    \/ \E w \in PoolWorkers : PoolAcquireRaises(w) /\ UNCHANGED notPlVars
    \/ \E w \in PoolWorkers : PoolFetch(w) /\ UNCHANGED notPlVars
    \/ \E w \in PoolWorkers : PoolFetchRaises(w) /\ UNCHANGED notPlVars
    \/ \E w \in PoolWorkers : PoolAppend(w) /\ UNCHANGED notPlVars
    \/ \E w \in PoolWorkers : PoolCollect(w) /\ UNCHANGED notPlVars

\* A started thread that can take its next step takes it; a failure is never
\* bound to happen, and neither is the collection of an ended thread's
\* connection.
PoolFairness ==
    \A w \in PoolWorkers :
        /\ WF_vars(PoolAcquire(w) /\ UNCHANGED notPlVars)
        /\ WF_vars(PoolFetch(w) /\ UNCHANGED notPlVars)
        /\ WF_vars(PoolAppend(w) /\ UNCHANGED notPlVars)

SpecPool == PoolSpecInit /\ [][PoolNext]_vars /\ PoolFairness

(***************************************************************************)
(* Properties of the introspection engine                                  *)
(***************************************************************************)
\* How many times row occurs over all batches.
Occurrences(row, batches) ==
    Cardinality(UNION {{<<i, k>> : k \in {j \in 1..Len(batches[i].rows) :
                                              batches[i].rows[j] = row}}
                       : i \in 1..Len(batches)})

\* The rows that occur in the batches.
RowsOf(batches) ==
    UNION {SeqToSet(batches[i].rows) : i \in 1..Len(batches)}

\* The batches of database d when _introspect_one_schema is run for its
\* schemas one after the other, in the configured order.
SequentialBatches(d) ==
    [i \in SchemesOf(d) |->
        IntrospectionSchema(Databases[d].schemes[i],
                            IntrospectedRows(d, Databases[d].schemes[i]))]

NoWorkerFailed == \A w \in Workers : workerPc[w] # "failed"

\* C1: when introspection() has returned and no worker failed, the result of
\* every database holds exactly one batch per configured schema, and every row
\* occurs in its batches as many times as in the batches of a sequential run.
C1_BatchesAsSequential ==
    (mainPc = "returned" /\ NoWorkerFailed) =>
        \A d \in 1..NumDatabases :
            LET batches == result[d].schemes
                sequential == SequentialBatches(d)
            IN  /\ Len(batches) = Cardinality(SchemesOf(d))
                /\ \A i \in SchemesOf(d) :
                      Cardinality({k \in 1..Len(batches) :
                                      batches[k].name = Databases[d].schemes[i].name}) = 1
                /\ \A row \in RowsOf(batches) \cup RowsOf(sequential) :
                      Occurrences(row, batches) = Occurrences(row, sequential)

\* C1 witness: a run without failures returned, and the batches of the first
\* database arrived in another order than the configured one.
C1_Witness ==
    /\ mainPc = "returned"
    /\ NoWorkerFailed
    /\ Len(result[1].schemes) = NumSchemes
    /\ result[1].schemes[1].name = Databases[1].schemes[2].name
    /\ result[1].schemes[1].rows # <<>>

\* C9 as claimed: when a worker has failed on its connection or its query,
\* introspection() does not return normally.
C9_FailureSurfaces ==
    (\E w \in Workers : workerPc[w] = "failed") => mainPc # "returned"

\* C10: when introspection() has returned, every worker has appended its batch
\* or failed, none holds the lock, and the lists handed to the caller are the
\* ones the workers left.
C10_ReturnsAfterAllWorkers ==
    mainPc = "returned" =>
        /\ \A w \in Workers : workerPc[w] \in {"done", "failed"}
        /\ lock = <<>>
        /\ result = introspection
        /\ \A w \in Workers :
              workerPc[w] = "done" =>
                 \E k \in 1..Len(result[w[1]].schemes) :
                    result[w[1]].schemes[k].name = SchemaOf(w).name

\* C10 witness: introspection() returned after one worker appended its batch
\* and another failed.
C10_Witness ==
    /\ mainPc = "returned"
    /\ \E w \in Workers : workerPc[w] = "done"
    /\ \E w \in Workers : workerPc[w] = "failed"
    /\ \E d \in 1..NumDatabases : result[d].schemes # <<>>

(***************************************************************************)
(* Properties of the tree reconstruction builder                           *)
(***************************************************************************)
RECURSIVE Flatten(_)
\* The rows of the batches in the order the builder iterates them.
Flatten(batches) ==
    IF batches = <<>> THEN <<>> ELSE batches[1].rows \o Flatten(Tail(batches))

\* Position of a character in the alphabet, for the order of package names.
CharIndex(c) == CHOOSE i \in 1..Len(Lowers) : Lowers[i] = c \/ Uppers[i] = c

RECURSIVE StrLess(_, _)
StrLess(a, b) ==
    IF b = <<>> THEN FALSE
    ELSE IF a = <<>> THEN TRUE
    ELSE IF a[1] = b[1] THEN StrLess(Tail(a), Tail(b))
    ELSE CharIndex(a[1]) < CharIndex(b[1])

RECURSIVE TupleLess(_, _)
TupleLess(a, b) ==
    IF a = <<>> THEN FALSE
    ELSE IF a[1] = b[1] THEN TupleLess(Tail(a), Tail(b))
    ELSE a[1] < b[1]

\* r1 sorts strictly before r2 by (package, object_id, subprogram_id, sequence,
\* position).
KeyLess(r1, r2) ==
    \/ StrLess(r1.package, r2.package)
    \/ /\ r1.package = r2.package
       /\ TupleLess(<<r1.object_id, r1.subprogram_id, r1.sequence, r1.position>>,
                    <<r2.object_id, r2.subprogram_id, r2.sequence, r2.position>>)

\* Every batch is strictly ordered by the key.
BatchesOrdered ==
    \A i \in 1..Len(introspected.schemes) :
        LET rows == introspected.schemes[i].rows
        IN  \A k \in 1..(Len(rows) - 1) : KeyLess(rows[k], rows[k + 1])

PairOf(row) == <<row.object_id, row.subprogram_id>>

\* The (object_id, subprogram_id) pairs occurring in the rows.
PairsOfRows == {PairOf(row) : row \in RowsOf(introspected.schemes)}

\* No pair has rows in more than one batch.
PairsWithinOneBatch ==
    \A pair \in PairsOfRows :
        Cardinality({i \in 1..Len(introspected.schemes) :
                        \E row \in SeqToSet(introspected.schemes[i].rows) :
                            PairOf(row) = pair}) = 1

\* No pair has rows under more than one package.
PairsUnderOnePackage ==
    \A r1 \in RowsOf(introspected.schemes), r2 \in RowsOf(introspected.schemes) :
        PairOf(r1) = PairOf(r2) => r1.package = r2.package

\* The Routine nodes of a Database, by their indices.
RoutineNodes(db) ==
    UNION {UNION {{<<s, p, r>> : r \in 1..Len(db.schemes[s].packages[p].routines)}
                  : p \in 1..Len(db.schemes[s].packages)}
           : s \in 1..Len(db.schemes)}

RoutineAt(db, n) == db.schemes[n[1]].packages[n[2]].routines[n[3]]

OneRoutinePerPair(db) ==
    /\ \A pair \in PairsOfRows :
          Cardinality({n \in RoutineNodes(db) :
                          <<RoutineAt(db, n).object_id,
                            RoutineAt(db, n).subprogram_id>> = pair}) = 1
    /\ Cardinality(RoutineNodes(db)) = Cardinality(PairsOfRows)

\* The immediate arguments of every routine are the depth-0 rows of its pair,
\* in the order of the rows.
ArgumentOrderPreserved(db) ==
    \A n \in RoutineNodes(db) :
        LET routine == RoutineAt(db, n)
            OfRoutine(row) ==
                /\ PairOf(row) = <<routine.object_id, routine.subprogram_id>>
                /\ row.data_level = 0
            expected == SelectSeq(Flatten(introspected.schemes), OfRoutine)
        IN  /\ Len(routine.arguments) = Len(expected)
            /\ \A k \in 1..Len(expected) :
                  /\ routine.arguments[k].sequence = expected[k].sequence
                  /\ routine.arguments[k].position = expected[k].position

\* C2 as claimed: over batches each strictly ordered by the key, the returned
\* Database has exactly one Routine node per (object_id, subprogram_id) pair of
\* the rows, with its depth-0 arguments in row order.
C2_OneRoutinePerPairOfOrderedBatches ==
    (irPc = "returned" /\ BatchesOrdered) =>
        /\ OneRoutinePerPair(intermediate_representation[1])
        /\ ArgumentOrderPreserved(intermediate_representation[1])

\* C2 amended: over batches each strictly ordered by the key in which no
\* (object_id, subprogram_id) pair has rows in more than one batch or under more
\* than one package, the returned Database has exactly one Routine node per
\* pair of the rows, with its depth-0 arguments in row order.
C2_OneRoutinePerPairWithinOneBatch ==
    (irPc = "returned" /\ BatchesOrdered /\ PairsWithinOneBatch /\ PairsUnderOnePackage) =>
        /\ OneRoutinePerPair(intermediate_representation[1])
        /\ ArgumentOrderPreserved(intermediate_representation[1])

\* C2 witness: ordered batches, no pair in two batches, two routines of one
\* package built, one of them with two depth-0 arguments.
C2_Witness ==
    /\ irPc = "returned"
    /\ BatchesOrdered
    /\ PairsWithinOneBatch
    /\ Cardinality(PairsOfRows) = 2
    /\ Len(intermediate_representation[1].schemes) = 1
    /\ \E n \in RoutineNodes(intermediate_representation[1]) :
          Len(RoutineAt(intermediate_representation[1], n).arguments) = 2

RECURSIVE ArgumentsNested(_, _)
\* Every argument of the list has data_level level, and the children of every
\* ComplexArgument of the list are nested at level + 1.
ArgumentsNested(arguments, level) ==
    \A k \in 1..Len(arguments) :
        /\ arguments[k].data_level = level
        /\ arguments[k].cls = "ComplexArgument" =>
              ArgumentsNested(arguments[k].arguments, level + 1)

WellNested(db) ==
    \A n \in RoutineNodes(db) : ArgumentsNested(RoutineAt(db, n).arguments, 0)

RECURSIVE Height(_)
\* The number of levels of a list of arguments.
Height(arguments) ==
    IF arguments = <<>> THEN 0
    ELSE LET below == {IF arguments[k].cls = "ComplexArgument"
                       THEN Height(arguments[k].arguments) ELSE 0
                       : k \in 1..Len(arguments)}
         IN  1 + CHOOSE h \in below : \A g \in below : g <= h

\* C3: in the tree the builder holds, every immediate argument of a Routine
\* has data_level 0 and every child of a ComplexArgument has the data_level of
\* its parent plus one.
C3_WellNested == WellNested(database)

\* C3 witness: a routine with arguments on the levels 0, 1 and 2.
C3_Witness ==
    \E n \in RoutineNodes(database) : Height(RoutineAt(database, n).arguments) = 3

RECURSIVE CountArguments(_)
\* The number of argument nodes in a list of arguments, children included.
CountArguments(arguments) ==
    IF arguments = <<>> THEN 0
    ELSE 1 + (IF arguments[1].cls = "ComplexArgument"
              THEN CountArguments(arguments[1].arguments) ELSE 0)
           + CountArguments(Tail(arguments))

RECURSIVE SumArguments(_, _)
SumArguments(db, nodes) ==
    IF nodes = {} THEN 0
    ELSE LET n == CHOOSE m \in nodes : TRUE
         IN  CountArguments(RoutineAt(db, n).arguments) + SumArguments(db, nodes \ {n})

\* The number of argument nodes of the tree.
ArgumentCount(db) == SumArguments(db, RoutineNodes(db))

RECURSIVE DeepestPlace(_, _)
\* The deepest data_level a row can be placed at under a list of arguments of
\* the given level: one more for every last-appended structural argument.
DeepestPlace(arguments, level) ==
    IF arguments # <<>> /\ Last(arguments).cls = "ComplexArgument"
    THEN DeepestPlace(Last(arguments).arguments, level + 1)
    ELSE level

\* The step of the builder over one row: a row that cannot be placed raises and
\* leaves the tree without a node for it, any other row adds one node and the
\* tree stays well nested.
RowPlacedOrRaised ==
    (irPc = "running" /\ SumLen(introspected'.schemes) = RowCount + 1) =>
        LET row == Last(Last(introspected'.schemes).rows)
            fresh == oid # <<row.object_id>> \/ sid # <<row.subprogram_id>>
            deepest == IF fresh THEN 0
                       ELSE DeepestPlace(CurrentRoutine(database).arguments, 0)
        IN  IF row.data_level > deepest
            THEN /\ irPc' = "raised"
                 /\ irError' \in {"TypeError", "IndexError"}
                 /\ ArgumentCount(database') = ArgumentCount(database)
            ELSE /\ irPc' = "running"
                 /\ ArgumentCount(database') = ArgumentCount(database) + 1
                 /\ WellNested(database')

\* C8: a row whose data_level cannot be placed makes the builder raise; it is
\* neither dropped without an error nor appended at another depth.
C8_UnplaceableRowRaises == [][RowPlacedOrRaised]_vars

\* C8 witness: the builder raised on a row of depth 2 that followed a depth-0
\* structural argument without children.
C8_Witness ==
    /\ irPc = "raised"
    /\ RowCount = 2
    /\ Flatten(introspected.schemes)[1].data_type \in COMPLEX_TYPES
    /\ Flatten(introspected.schemes)[2].data_level = 2
    /\ PairOf(Flatten(introspected.schemes)[1]) = PairOf(Flatten(introspected.schemes)[2])

(***************************************************************************)
(* Properties of the filter compiler                                       *)
(***************************************************************************)
\* C4: a Schema compiled from a non-empty include_routines list has empty
\* excluded_packages, excluded_routines and excluded_routines_no_pkg fragments,
\* whatever exclude lists it was given.
C4_IncludeEmptiesExcludeFragments ==
    (scPc = "compiled" /\ scRaw.include_routines # <<>>) =>
        /\ scSchema.excluded_packages = <<>>
        /\ scSchema.excluded_routines = <<>>
        /\ scSchema.excluded_routines_no_pkg = <<>>

\* C4 witness: a Schema compiled from non-empty include_routines,
\* exclude_packages and exclude_routines lists.
C4_Witness ==
    /\ scPc = "compiled"
    /\ scRaw.include_routines # <<>>
    /\ scRaw.exclude_packages # <<>>
    /\ scRaw.exclude_routines # <<>>
    /\ scSchema.included_routines \o scSchema.included_routines_no_pkg # <<>>

\* The names a package or a routine is written with in a specifier.
Names == Segments \ {<<>>}

Dotted(parts) == Join(<<".">>, parts)

\* C5: for a specifier of one of the forms routine, package.routine,
\* schema.routine and schema.package.routine, schema being the name normalize is
\* called with, normalize returns exactly the three segments schema, package or
\* the empty string, routine.
C5_ValidSpecifierGivesThreeSegments ==
    (nzPc = "returned" /\ nzObjects # <<>>) =>
        \A package \in Names, routine \in Names :
            LET o == nzObjects[1]
                normalized == nzNormalized[1]
            IN  /\ o \in {Dotted(<<routine>>), Dotted(<<nzName, routine>>)} =>
                      normalized = <<nzName, <<>>, routine>>
                /\ (package # nzName /\ o = Dotted(<<package, routine>>)) =>
                      normalized = <<nzName, package, routine>>
                /\ o = Dotted(<<nzName, package, routine>>) =>
                      normalized = <<nzName, package, routine>>

\* C5 witness: normalize returned for a specifier schema.package.routine.
C5_Witness ==
    /\ nzPc = "returned"
    /\ nzObjects # <<>>
    /\ \E package \in Names, routine \in Names :
          /\ package # nzName
          /\ nzObjects[1] = Dotted(<<nzName, package, routine>>)
    /\ Len(nzNormalized[1]) = 3

\* The FQDN Schema.__post_init__ makes of one normalized object, when it has
\* the three members FQDN takes.
FQDNOf(normalized) == FQDN(normalized[1], normalized[2], normalized[3])

\* C6: under schema name S the specifiers routine, S.routine and S..routine
\* give the FQDN (S, empty package, routine), and package.routine gives the
\* FQDN of S.package.routine.
C6_EquivalentSpecifiers ==
    (nzPc = "returned" /\ nzObjects # <<>>) =>
        \A package \in Names, routine \in Names :
            LET o == nzObjects[1]
                S == nzName
                short == NormalizeOne(S, Dotted(<<routine>>))
                qualified == NormalizeOne(S, Dotted(<<S, routine>>))
                explicit == NormalizeOne(S, Dotted(<<S, <<>>, routine>>))
                packaged == NormalizeOne(S, Dotted(<<package, routine>>))
                full == NormalizeOne(S, Dotted(<<S, package, routine>>))
            IN  /\ o \in {Dotted(<<routine>>), Dotted(<<S, routine>>),
                          Dotted(<<S, <<>>, routine>>)} =>
                      /\ Len(short) = 3 /\ Len(qualified) = 3 /\ Len(explicit) = 3
                      /\ FQDNOf(nzNormalized[1]) = FQDN(S, <<>>, routine)
                      /\ FQDNOf(short) = FQDNOf(qualified)
                      /\ FQDNOf(qualified) = FQDNOf(explicit)
                      /\ FQDNOf(explicit) = FQDNOf(nzNormalized[1])
                /\ (package # S /\ o = Dotted(<<package, routine>>)) =>
                      /\ Len(packaged) = 3 /\ Len(full) = 3
                      /\ FQDNOf(nzNormalized[1]) = FQDNOf(full)
                      /\ FQDNOf(packaged) = FQDNOf(full)

\* C6 witness: normalize returned for a specifier S..routine.
C6_Witness ==
    /\ nzPc = "returned"
    /\ nzObjects # <<>>
    /\ \E routine \in Names : nzObjects[1] = Dotted(<<nzName, <<>>, routine>>)
    /\ nzNormalized[1][2] = <<>>

(***************************************************************************)
(* Properties of the appendix overrides                                    *)
(***************************************************************************)
\* C7: where the entry of a row's (object_id, subprogram_id) and the entry of
\* its (object_id, subprogram_id, position) both set an attribute, the row ends
\* the override loop with the value of the entry with the position.
C7_ArgumentLevelWins ==
    ovPc = "overridden" =>
        \A i \in 1..Len(ovRows) :
            LET row == ovRows[i]
                subprogram == <<row.object_id, row.subprogram_id>>
                argument == <<row.object_id, row.subprogram_id, row.position>>
            IN  ({subprogram, argument} \subseteq DOMAIN ovAppendix) =>
                    \A a \in DOMAIN ovAppendix[subprogram].new \cap
                             DOMAIN ovAppendix[argument].new :
                        ovResult[i][a] = ovAppendix[argument].new[a]

\* C7 witness: both entries matched a row and set one attribute to different
\* values.
C7_Witness ==
    /\ ovPc = "overridden"
    /\ \E i \in 1..Len(ovRows) :
          LET row == ovRows[i]
              subprogram == <<row.object_id, row.subprogram_id>>
              argument == <<row.object_id, row.subprogram_id, row.position>>
          IN  /\ {subprogram, argument} \subseteq DOMAIN ovAppendix
              /\ \E a \in DOMAIN ovAppendix[subprogram].new \cap
                          DOMAIN ovAppendix[argument].new :
                    /\ ovAppendix[subprogram].new[a] # ovAppendix[argument].new[a]
                    /\ ovResult[i][a] # row[a]

(***************************************************************************)
(* Properties of the query builder                                         *)
(***************************************************************************)
\* The lines of the sql list with the given text.
LinesOf(text) == {i \in 1..Len(scQuery.sql) : scQuery.sql[i].text = text}

Emitted(text) == LinesOf(text) # {}

WithPackageSql == "INTROSPECTION_WITH_PACKAGE_SQL"

WithoutPackageSql == "INTROSPECTION_WITHOUT_PACKAGE_SQL"

AllowPackaged ==
    "    and ao.owner || '.' || ao.object_name || '.' || ap.procedure_name in ({})"

AllowLoose == "  and aa.object_name in ({})"

DenyPackages == "  and ao.object_name not in ({})"

DenyPackaged ==
    "  and ao.owner || '.' || ao.object_name || '.' || ap.procedure_name not in ({})"

DenyLoose == "  and ao.owner || '.' || ap.object_name not in ({})"

\* Every line of text base is followed by a line of text clause that
\* interpolates a fragment.
FollowedBy(base, clause) ==
    \A i \in LinesOf(base) :
        /\ i < Len(scQuery.sql)
        /\ scQuery.sql[i + 1].text = clause
        /\ scQuery.sql[i + 1].fragment # <<>>

\* C11: for a Schema with include_routines the sql list holds the with-package
\* query iff an included routine has a package and the without-package query
\* iff an included routine has none, each followed by its allow-list clause
\* with a fragment in it.
C11_IncludeBranchesHaveAllowLists ==
    (scPc = "queried" /\ scRaw.include_routines # <<>>) =>
        LET included == SeqToSet(scSchema.include_routines)
        IN  /\ Emitted(WithPackageSql) <=> \E f \in included : f.package # <<>>
            /\ Emitted(WithoutPackageSql) <=> \E f \in included : f.package = <<>>
            /\ FollowedBy(WithPackageSql, AllowPackaged)
            /\ FollowedBy(WithoutPackageSql, AllowLoose)
            /\ Cardinality(LinesOf(WithPackageSql)) <= 1
            /\ Cardinality(LinesOf(WithoutPackageSql)) <= 1
            /\ \A i \in LinesOf(AllowPackaged) \cup LinesOf(AllowLoose) :
                  scQuery.sql[i].fragment # <<>>

\* C11 witness: a query built for include_routines naming a packaged and a
\* loose routine, both branches in it.
C11_Witness ==
    /\ scPc = "queried"
    /\ scRaw.include_routines # <<>>
    /\ Emitted(WithPackageSql)
    /\ Emitted(WithoutPackageSql)
    /\ Emitted("union all")

\* A malformed object specifier: the empty string, or more than three dotted
\* segments.
Malformed(o) == o = <<>> \/ Len(Split(o)) > 3

\* C12 as claimed: for a Schema without include_routines, compiled from well
\* formed specifiers, the sql list holds the with-package query, 'union all' and
\* the without-package query in this order, each deny-list clause iff its
\* deny-list fragment is there, and no 'not in' clause with an empty fragment.
C12_DenyClausesOnlyWhenPresent ==
    (/\ scPc = "queried"
     /\ scRaw.include_routines = <<>>
     /\ \A o \in SeqToSet(scRaw.exclude_routines) : ~Malformed(o)) =>
        /\ scQuery.sql[1].text = WithPackageSql
        /\ \E u \in LinesOf("union all") :
              /\ scQuery.sql[u + 1].text = WithoutPackageSql
              /\ LinesOf(DenyPackages) \cup LinesOf(DenyPackaged) \subseteq 1..(u - 1)
              /\ \A i \in LinesOf(DenyLoose) : i > u + 1
        /\ Emitted(DenyPackages) <=> scSchema.excluded_packages # <<>>
        /\ Emitted(DenyPackaged) <=> scSchema.excluded_routines # <<>>
        /\ Emitted(DenyLoose) <=> scSchema.excluded_routines_no_pkg # <<>>
        /\ \A i \in LinesOf(DenyPackages) \cup LinesOf(DenyPackaged) \cup LinesOf(DenyLoose) :
              scQuery.sql[i].fragment # <<>>

\* C13 as claimed: no Schema is compiled from a list holding a malformed
\* object specifier.
C13_MalformedSpecifierFails ==
    scPc \in {"compiled", "queried"} =>
        \A o \in SeqToSet(scRaw.include_routines) \cup SeqToSet(scRaw.exclude_routines) :
            ~Malformed(o)

(***************************************************************************)
(* Properties of the order of the batches                                  *)
(***************************************************************************)
\* The names of the batches of database d, in the order of the result.
BatchNames(d) == [k \in 1..Len(result[d].schemes) |-> result[d].schemes[k].name]

\* The names of the schemas configured for database d, in configured order.
ConfiguredNames(d) == [i \in SchemesOf(d) |-> Databases[d].schemes[i].name]

StructuralTypes ==
    {<<"r", "e", "f", " ", "c", "u", "r", "s", "o", "r">>,
     <<"o", "b", "j", "e", "c", "t">>,
     <<"v", "a", "r", "r", "a", "y">>,
     <<"t", "a", "b", "l", "e">>,
     <<"r", "e", "c", "o", "r", "d">>,
     <<"p", "l", "/", "s", "q", "l", " ", "t", "a", "b", "l", "e">>,
     <<"p", "l", "/", "s", "q", "l", " ", "r", "e", "c", "o", "r", "d">>}

\* C15: the node made of a row is a ComplexArgument, with an empty list of
\* children, when the row's data_type is a structural type, and a
\* SimpleArgument, without such a list, for any other data_type.
C15_ComplexArgumentForStructuralTypes ==
    rwPc \in {"argument", "routine", "str"} =>
        IF rwRow.data_type \in StructuralTypes
        THEN /\ rwArgument.cls = "ComplexArgument"
             /\ "arguments" \in DOMAIN rwArgument
             /\ rwArgument.arguments = <<>>
             /\ rwArgument.data_type = rwRow.data_type
        ELSE /\ rwArgument.cls = "SimpleArgument"
             /\ "arguments" \notin DOMAIN rwArgument
             /\ rwArgument.data_type = rwRow.data_type

\* C15 witness: a ComplexArgument made of a ref cursor row.
C15_Witness ==
    /\ rwPc = "argument"
    /\ rwRow.data_type = <<"r", "e", "f", " ", "c", "u", "r", "s", "o", "r">>
    /\ rwArgument.cls = "ComplexArgument"

\* C16: str() of the FQDN of a Routine is SCHEMA.PACKAGE.ROUTINE for a row of
\* a package and SCHEMA.ROUTINE, the package of the FQDN being empty, for a row
\* with is_package false, which carries the no-package name as its package.
C16_FqdnStrJoinsNonEmptyParts ==
    rwPc = "str" =>
        LET schema == Upper(rwRaw.schema)
            package == Upper(rwRaw.package)
            routine == Upper(rwRaw.routine)
        IN  IF rwRaw.is_package = 0
            THEN /\ rwRow.package # <<>>
                 /\ rwRoutine.fqdn.package = <<>>
                 /\ rwStr = schema \o <<".">> \o routine
            ELSE /\ rwRoutine.fqdn.package = package
                 /\ rwStr = schema \o <<".">> \o package \o <<".">> \o routine

\* C16 witness: str() of the FQDN of a routine without a package.
C16_Witness ==
    /\ rwPc = "str"
    /\ rwRaw.is_package = 0
    /\ rwRow.package = Lower(<<"S">> \o NoPkgSuffix)
    /\ rwStr = <<"S", ".", "R">>

\* C18: in the IntrospectionRow constructed of fetched values is_package is
\* the boolean of the raw number, defaulted is TRUE iff the raw value is 'Y',
\* overload is 0 for null and the number otherwise, and every string has its
\* letters in lower case and is otherwise unchanged.
C18_RowNormalized ==
    rwPc # "fetched" =>
        /\ rwRow.is_package \in BOOLEAN
        /\ rwRow.is_package <=> rwRaw.is_package # 0
        /\ rwRow.defaulted \in BOOLEAN
        /\ rwRow.defaulted <=> rwRaw.defaulted = <<"Y">>
        /\ rwRow.overload = IF rwRaw.overload = <<>> THEN 0 ELSE rwRaw.overload[1]
        /\ \A a \in StrAttributes :
              IF rwRaw[a] = None THEN rwRow[a] = None
              ELSE /\ Len(rwRow[a]) = Len(rwRaw[a])
                   /\ \A i \in 1..Len(rwRaw[a]) :
                         /\ rwRow[a][i] \notin SeqToSet(Uppers)
                         /\ UpperChar(rwRow[a][i]) = UpperChar(rwRaw[a][i])
        /\ \A a \in DOMAIN rwRaw \ (StrAttributes \cup {"is_package", "defaulted", "overload"}) :
              rwRow[a] = rwRaw[a]

\* C18 witness: a row constructed of a null overload, defaulted 'N' and upper
\* case strings.
C18_Witness ==
    /\ rwPc = "row"
    /\ rwRaw.overload = <<>>
    /\ rwRaw.defaulted = <<"N">>
    /\ rwRaw.is_package = 1
    /\ rwRaw.data_type = <<"N", "U", "M", "B", "E", "R">>
    /\ rwRow.data_type = <<"n", "u", "m", "b", "e", "r">>
    /\ rwRow.overload = 0
    /\ ~rwRow.defaulted

(***************************************************************************)
(* Properties of failures and of the append under the lock                 *)
(***************************************************************************)
\* Every started thread has ended and introspection() has returned or raised.
AllEnded ==
    /\ mainPc \in {"returned", "raised"}
    /\ \A w \in Workers : workerPc[w] \in {"new", "done", "failed"}

\* A failure of the database at index d itself: its pool could not be made,
\* or one of its threads ended with an exception.
FailedItself(d) ==
    \/ mainPc = "raised" /\ mainDb = d
    \/ \E w \in Workers : w[1] = d /\ workerPc[w] = "failed"

\* C17: once everything has ended, every database without a failure of its
\* own has all its schemas introspected, one batch per configured schema,
\* whatever has failed in another database.
C17_OtherDatabasesUnaffected ==
    AllEnded =>
        \A d \in 1..NumDatabases :
            ~FailedItself(d) =>
                /\ d <= Len(introspection)
                /\ Len(introspection[d].schemes) = Cardinality(SchemesOf(d))
                /\ \A i \in SchemesOf(d) :
                      \E k \in 1..Len(introspection[d].schemes) :
                          introspection[d].schemes[k].name = Databases[d].schemes[i].name

\* The workers inside the with block of the lock.
InsideAppend == {w \in Workers : workerPc[w] = "locked"}

\* The rows the database at index d returns for a schema, as fetched.
FetchedFor(d, schema) ==
    LET query == BuildQuery(schema) IN FetchAll(d, query.sql, query.binds)

\* C19: at most one worker is inside the append, and it holds the lock; each
\* appended batch holds the rows fetched for the schema it is named after, all
\* of them and in the order of the fetch.
C19_AppendExclusiveAndBatchesWhole ==
    /\ Cardinality(InsideAppend) <= 1
    /\ \A w \in InsideAppend : lock = <<w>>
    /\ \A d \in 1..Len(introspection) :
          \A k \in 1..Len(introspection[d].schemes) :
              LET batch == introspection[d].schemes[k]
              IN  \E i \in SchemesOf(d) :
                      LET fetched == FetchedFor(d, Databases[d].schemes[i])
                      IN  /\ batch.name = Databases[d].schemes[i].name
                          /\ Len(batch.rows) = Len(fetched)
                          /\ \A n \in 1..Len(fetched) :
                                /\ batch.rows[n].schema = Lower(batch.name)
                                /\ batch.rows[n].object_id = fetched[n].object_id
                                /\ batch.rows[n].subprogram_id = fetched[n].subprogram_id
                                /\ batch.rows[n].position = fetched[n].position
                                /\ batch.rows[n].data_type = Lower(fetched[n].data_type)

\* C19 witness: one batch of the first database is appended, a second worker
\* is inside the append and a third holds its rows and waits for the lock.
C19_Witness ==
    /\ Len(introspection) = NumDatabases
    /\ Len(introspection[1].schemes) = 1
    /\ Len(introspection[1].schemes[1].rows) = 2
    /\ workerPc[<<1, 2>>] = "locked"
    /\ workerPc[<<2, 1>>] = "fetched"

(***************************************************************************)
(* Properties of the Schema and Package nodes of the builder               *)
(***************************************************************************)
\* The step of the builder over one row: a Schema node is appended exactly
\* when the row's schema is not the name of the last Schema node, a Package
\* node is appended to the current schema exactly when the row's package is not
\* the name of its last Package node, and no earlier node is touched.
NodesFollowLastNames ==
    (irPc = "running" /\ SumLen(introspected'.schemes) = RowCount + 1) =>
        LET row == Last(Last(introspected'.schemes).rows)
            before == database.schemes
            after == database'.schemes
        IN  IF before = <<>> \/ row.schema # Last(before).name
            THEN /\ Len(after) = Len(before) + 1
                 /\ SubSeq(after, 1, Len(before)) = before
                 /\ Last(after).name = row.schema
                 /\ Len(Last(after).packages) = 1
                 /\ Last(after).packages[1].name = row.package
            ELSE /\ Len(after) = Len(before)
                 /\ SubSeq(after, 1, Len(before) - 1) = SubSeq(before, 1, Len(before) - 1)
                 /\ Last(after).name = Last(before).name
                 /\ LET packages == Last(before).packages
                        packages_after == Last(after).packages
                    IN  IF row.package # Last(packages).name
                        THEN /\ Len(packages_after) = Len(packages) + 1
                             /\ SubSeq(packages_after, 1, Len(packages)) = packages
                             /\ Last(packages_after).name = row.package
                        ELSE /\ Len(packages_after) = Len(packages)
                             /\ Last(packages_after).name = row.package

\* C20: folding a row creates a Schema node whenever the row's schema differs
\* from the name of the last Schema node and a Package node whenever its
\* package differs from the name of the last Package node of the current
\* schema; nodes of the same name further back are not looked for.
C20_NodesFollowLastNames == [][NodesFollowLastNames]_vars

\* C20 witness: rows of schema a, of schema b and of schema a again gave two
\* Schema nodes named a.
C20_Witness ==
    /\ Len(database.schemes) = 3
    /\ database.schemes[1].name = <<"a">>
    /\ database.schemes[2].name = <<"b">>
    /\ database.schemes[3].name = <<"a">>
    /\ database.schemes[3].packages # <<>>

(***************************************************************************)
(* Properties of the Routine nodes of the builder                          *)
(***************************************************************************)
\* The node of the Routine created last.
CurrentRoutineNode(db) ==
    LET s == Len(db.schemes)
        p == Len(db.schemes[s].packages)
    IN  <<s, p, Len(db.schemes[s].packages[p].routines)>>

\* The step of the builder over one row: a Routine node is added, as the last
\* routine of the last package, exactly when there is no previous row or the
\* previous row, of this batch or of the one before, has another object_id or
\* subprogram_id; the row's argument goes into the routine created last and
\* every other routine stays as it was.
RoutineStartedOnNewIds ==
    (irPc = "running" /\ SumLen(introspected'.schemes) = RowCount + 1) =>
        LET rows == Flatten(introspected.schemes)
            row == Last(Last(introspected'.schemes).rows)
            fresh == \/ rows = <<>>
                     \/ Last(rows).object_id # row.object_id
                     \/ Last(rows).subprogram_id # row.subprogram_id
            current == CurrentRoutine(database')
            before == IF fresh THEN 0 ELSE CountArguments(CurrentRoutine(database).arguments)
        IN  /\ Cardinality(RoutineNodes(database')) =
                  Cardinality(RoutineNodes(database)) + (IF fresh THEN 1 ELSE 0)
            /\ current.object_id = row.object_id
            /\ current.subprogram_id = row.subprogram_id
            /\ Last(Last(database'.schemes).packages).name = row.package
            /\ fresh => CurrentRoutineNode(database') \notin RoutineNodes(database)
            /\ ~fresh => CurrentRoutineNode(database') = CurrentRoutineNode(database)
            /\ irPc' = "running" => CountArguments(current.arguments) = before + 1
            /\ \A n \in RoutineNodes(database) :
                  n # CurrentRoutineNode(database') =>
                      RoutineAt(database', n) = RoutineAt(database, n)

\* C21: a Routine node is started, in the current package, exactly at the
\* rows whose object_id or subprogram_id differs from the previous row's, the
\* first row included, and every row's argument is dispatched into the routine
\* started last, also when the previous row is of the batch before.
C21_RoutineStartedOnNewIds == [][RoutineStartedOnNewIds]_vars

\* C21 witness: the second batch begins with a row of the routine the first
\* batch ended with, which went into that routine, and goes on with a row of
\* another subprogram, which started a second routine.
C21_Witness ==
    /\ irPc = "running"
    /\ Len(introspected.schemes) = 2
    /\ Len(introspected.schemes[1].rows) = 1
    /\ Len(introspected.schemes[2].rows) = 2
    /\ PairOf(introspected.schemes[1].rows[1]) = PairOf(introspected.schemes[2].rows[1])
    /\ PairOf(introspected.schemes[2].rows[1]) # PairOf(introspected.schemes[2].rows[2])
    /\ Cardinality(RoutineNodes(database)) = 2
    /\ Len(RoutineAt(database, <<1, 1, 1>>).arguments) = 2
    /\ Len(RoutineAt(database, <<1, 1, 2>>).arguments) = 1

(***************************************************************************)
(* Properties of the shape of the emitted query                            *)
(***************************************************************************)
OrderClause == "order by package, object_id, subprogram_id, sequence, position"

\* The lines of the sql list that are a base query.
BaseLines == LinesOf(WithPackageSql) \cup LinesOf(WithoutPackageSql)

\* C22: the sql list of every compiled Schema holds one or two base queries,
\* when two the with-package one, then the one 'union all', then the
\* without-package one, and the order clause as its last line and nowhere
\* else; the order clause is never the only line.
C22_BaseQueriesThenOrderClause ==
    scPc = "queried" =>
        /\ Len(scQuery.sql) >= 2
        /\ LinesOf(OrderClause) = {Len(scQuery.sql)}
        /\ Cardinality(BaseLines) \in {1, 2}
        /\ Cardinality(LinesOf(WithPackageSql)) <= 1
        /\ Cardinality(LinesOf(WithoutPackageSql)) <= 1
        /\ 1 \in BaseLines
        /\ IF Cardinality(BaseLines) = 2
           THEN /\ Cardinality(LinesOf("union all")) = 1
                /\ \A w \in LinesOf(WithPackageSql), u \in LinesOf("union all"),
                      l \in LinesOf(WithoutPackageSql) :
                      w < u /\ l = u + 1
           ELSE ~Emitted("union all")

\* C22 witness: a query of the without-package base query alone, its
\* allow-list clause and the order clause.
C22_Witness ==
    /\ scPc = "queried"
    /\ Len(scQuery.sql) = 3
    /\ scQuery.sql[1].text = WithoutPackageSql
    /\ scQuery.sql[2].text = AllowLoose
    /\ scQuery.sql[3].text = OrderClause

(***************************************************************************)
(* Properties of the error of the builder                                  *)
(***************************************************************************)
\* sub occurs in s.
Contains(s, sub) ==
    \E i \in 0..(Len(s) - Len(sub)) : SubSeq(s, i + 1, i + Len(sub)) = sub

RECURSIVE Str(_)
\* str() of a natural number.
Str(n) ==
    LET digit == <<"0", "1", "2", "3", "4", "5", "6", "7", "8", "9">>
    IN  IF n < 10 THEN <<digit[n + 1]>> ELSE Str(n \div 10) \o <<digit[(n % 10) + 1]>>

\* C23: the error the builder raises on a row whose data_level cannot be
\* placed carries the FQDN of the row's routine and the position of the row.
C23_ErrorNamesRoutineAndPosition ==
    irPc = "raised" =>
        LET row == Last(Flatten(introspected.schemes))
            message == ExceptionMessage(irError)
        IN  /\ Contains(message, FQDNStr(CurrentRoutine(database).fqdn))
            /\ Contains(message, Str(row.position))

(***************************************************************************)
(* Properties of the tree against its rows                                 *)
(***************************************************************************)
RECURSIVE WalkArguments(_, _)
\* The argument nodes of a list in pre-order, each before its children, each
\* with the path of names and ids above it.
WalkArguments(arguments, path) ==
    IF arguments = <<>> THEN <<>>
    ELSE <<[path |-> path, argument |-> arguments[1]]>>
         \o (IF arguments[1].cls = "ComplexArgument"
             THEN WalkArguments(arguments[1].arguments, path) ELSE <<>>)
         \o WalkArguments(Tail(arguments), path)

RECURSIVE WalkRoutines(_, _)
WalkRoutines(routines, path) ==
    IF routines = <<>> THEN <<>>
    ELSE WalkArguments(routines[1].arguments,
                       path \o <<routines[1].object_id, routines[1].subprogram_id>>)
         \o WalkRoutines(Tail(routines), path)

RECURSIVE WalkPackages(_, _)
WalkPackages(packages, path) ==
    IF packages = <<>> THEN <<>>
    ELSE WalkRoutines(packages[1].routines, path \o <<packages[1].name>>)
         \o WalkPackages(Tail(packages), path)

RECURSIVE WalkSchemes(_)
WalkSchemes(schemes) ==
    IF schemes = <<>> THEN <<>>
    ELSE WalkPackages(schemes[1].packages, <<schemes[1].name>>)
         \o WalkSchemes(Tail(schemes))

\* The walk of the tree gives the rows, one argument node per row and in the
\* order of the rows.
WalkGivesRows(db, rows) ==
    LET walk == WalkSchemes(db.schemes)
    IN  /\ Len(walk) = Len(rows)
        /\ \A k \in 1..Len(rows) :
              /\ walk[k].path = <<rows[k].schema, rows[k].package,
                                  rows[k].object_id, rows[k].subprogram_id>>
              /\ walk[k].argument.name = rows[k].argument
              /\ walk[k].argument.sequence = rows[k].sequence
              /\ walk[k].argument.position = rows[k].position
              /\ walk[k].argument.data_level = rows[k].data_level
              /\ walk[k].argument.data_type = rows[k].data_type

\* C24: the pre-order walk of the Database the builder returned gives the rows
\* of the batches in their order, one argument node per row.
C24_WalkGivesRows ==
    irPc = "returned" =>
        WalkGivesRows(intermediate_representation[1], Flatten(introspected.schemes))

\* C24 witness: a returned tree of three rows with a child under a structural
\* argument and a second routine.
C24_Witness ==
    /\ irPc = "returned"
    /\ Len(Flatten(introspected.schemes)) = 3
    /\ Flatten(introspected.schemes)[2].data_level = 1
    /\ Cardinality(RoutineNodes(intermediate_representation[1])) = 2

\* No Schema node without a Package, no Package without a Routine, no Routine
\* without an argument.
NoEmptyContainer(db) ==
    \A s \in 1..Len(db.schemes) :
        /\ db.schemes[s].packages # <<>>
        /\ \A p \in 1..Len(db.schemes[s].packages) :
              /\ db.schemes[s].packages[p].routines # <<>>
              /\ \A r \in 1..Len(db.schemes[s].packages[p].routines) :
                    db.schemes[s].packages[p].routines[r].arguments # <<>>

\* C25: every Database the builder returns has no empty container: each
\* Schema has a Package, each Package a Routine and each Routine an argument.
C25_NoEmptyContainer ==
    irPc = "returned" =>
        \A d \in 1..Len(intermediate_representation) :
            NoEmptyContainer(intermediate_representation[d])

\* C25 witness: a returned tree of two schemas, three packages and three
\* routines.
C25_Witness ==
    /\ irPc = "returned"
    /\ Len(intermediate_representation[1].schemes) = 2
    /\ Cardinality(RoutineNodes(intermediate_representation[1])) = 3
    /\ \E s \in 1..2 : Len(intermediate_representation[1].schemes[s].packages) = 2

(***************************************************************************)
(* Properties of the connections of the session pool                       *)
(***************************************************************************)
\* C26: every connection a worker has acquired is eventually back in the
\* pool, and every worker eventually gets past session_pool.acquire(), though
\* there are more workers than connections in the pool.
C26_ConnectionsReleased ==
    \A w \in PoolWorkers :
        /\ (w \in plBusy) ~> (w \notin plBusy)
        /\ <>(plPc[w] # "run")

(***************************************************************************)
(* Properties of the binds of the emitted query                            *)
(***************************************************************************)
\* C27: the binds passed with the query hold schema, hold no_package_name
\* exactly when the without-package base query is in the sql list, and are the
\* bind variables the sql list refers to, no more and no less.
C27_BindsAsReferenced ==
    scPc = "queried" =>
        /\ "schema" \in DOMAIN scQuery.binds
        /\ "no_package_name" \in DOMAIN scQuery.binds <=> Emitted(WithoutPackageSql)
        /\ DOMAIN scQuery.binds =
              UNION {BindsReferenced(scQuery.sql[i].text) : i \in 1..Len(scQuery.sql)}
        /\ scQuery.binds["schema"] = scSchema.name
        /\ Emitted(WithoutPackageSql) =>
              scQuery.binds["no_package_name"] = scSchema.no_package_name

\* C27 witness: a query of the with-package base query alone, passed with the
\* schema bind alone.
C27_Witness ==
    /\ scPc = "queried"
    /\ Emitted(WithPackageSql)
    /\ ~Emitted(WithoutPackageSql)
    /\ DOMAIN scQuery.binds = {"schema"}

(***************************************************************************)
(* Properties of what the appendix overrides leave alone                   *)
(***************************************************************************)
\* The entries of the appendix that match a row.
MatchingKeys(row) ==
    {<<row.object_id, row.subprogram_id>>,
     <<row.object_id, row.subprogram_id, row.position>>} \cap DOMAIN ovAppendix

\* The attributes the entries that match a row replace.
Replaced(row) == UNION {DOMAIN ovAppendix[k].new : k \in MatchingKeys(row)}

\* C28: the override loop leaves the rows as many as and in the order they
\* were fetched, leaves a row that no entry of the appendix matches as it was,
\* and changes of a matching row only the attributes its matching entries
\* replace.
C28_OverrideChangesOnlyReplaced ==
    ovPc = "overridden" =>
        /\ Len(ovResult) = Len(ovRows)
        /\ \A i \in 1..Len(ovRows) :
              /\ DOMAIN ovResult[i] = DOMAIN ovRows[i]
              /\ MatchingKeys(ovRows[i]) = {} => ovResult[i] = ovRows[i]
              /\ \A a \in DOMAIN ovRows[i] \ Replaced(ovRows[i]) :
                    ovResult[i][a] = ovRows[i][a]

\* C28 witness: an entry replaced the data_type of the first row, the third
\* row, of another subprogram, has no entry, and the second row has only an
\* entry that replaces nothing of it but custom_type.
C28_Witness ==
    /\ ovPc = "overridden"
    /\ MatchingKeys(ovRows[3]) = {}
    /\ MatchingKeys(ovRows[1]) # {}
    /\ "data_type" \in Replaced(ovRows[1])
    /\ ovResult[1].data_type # ovRows[1].data_type
    /\ Replaced(ovRows[2]) = {"custom_type"}
    /\ ovResult[2].data_type = ovRows[2].data_type
    /\ ovResult[2].custom_type # ovRows[2].custom_type

(***************************************************************************)
(* Properties of the letter case of the specifiers                         *)
(***************************************************************************)
\* The specifier schema.routine, with the name of the schema in any letter
\* case, compiled to the FQDN (SCHEMA, empty package, ROUTINE).
QualifiedInAnyCase(specifiers, fqdns) ==
    \A i \in 1..Len(specifiers) :
        LET segs == Split(specifiers[i])
        IN  (Len(segs) = 2 /\ Upper(segs[1]) = Upper(scRaw.name)) =>
                fqdns[i] = [schema |-> Upper(scRaw.name), package |-> <<>>,
                            routine |-> Upper(segs[2])]

\* C29: a specifier whose first segment is the name of the schema in any
\* letter case compiles as the specifier in the canonical case does: to the
\* FQDN of the schema, no package and the routine, never to one with the
\* schema's name as the package.
C29_SchemaSegmentInAnyCase ==
    scPc \in {"compiled", "queried"} =>
        /\ QualifiedInAnyCase(scRaw.include_routines, scSchema.include_routines)
        /\ QualifiedInAnyCase(scRaw.exclude_routines, scSchema.exclude_routines)

(***************************************************************************)
(* Properties of the batches of the siblings of a failed worker            *)
(***************************************************************************)
\* A step keeps every batch of every database as it is and where it is.
BatchesKept ==
    \A d \in 1..Len(introspection) :
        /\ d <= Len(introspection')
        /\ Len(introspection'[d].schemes) >= Len(introspection[d].schemes)
        /\ SubSeq(introspection'[d].schemes, 1, Len(introspection[d].schemes)) =
              introspection[d].schemes

\* After a step the batch of every worker that has completed is in the result
\* of its database, with the rows the worker fetched, whatever became of the
\* other workers.
CompletedBatchesPresent ==
    \A w \in Workers :
        workerPc'[w] = "done" =>
            \E k \in 1..Len(introspection'[w[1]].schemes) :
                /\ introspection'[w[1]].schemes[k].name = SchemaOf(w).name
                /\ introspection'[w[1]].schemes[k].rows = workerRows'[w]

\* C30: no step, the failure of a worker included, removes or changes a
\* batch that is in a database's result, and the batch of every worker that
\* completes, before or after the failure of a sibling, is in the result.
C30_SiblingBatchesKept == [][BatchesKept /\ CompletedBatchesPresent]_vars

\* C30 witness: introspection() returned the first database with the batch of
\* its second schema, whose sibling failed.
C30_Witness ==
    /\ mainPc = "returned"
    /\ workerPc[<<1, 1>>] = "failed"
    /\ workerPc[<<1, 2>>] = "done"
    /\ Len(result[1].schemes) = 1
    /\ result[1].schemes[1].name = Databases[1].schemes[2].name
    /\ Len(result[1].schemes[1].rows) = 2

=============================================================================
